---- MODULE Spec2Model ----
(***************************************************************************)
(* Network-Device-Monitor: the device inventory (storage/sqlite.py), the   *)
(* periodic discovery job and monitoring tick (scheduler/jobs.py) and the  *)
(* on-demand scan endpoint (api/routers/devices.py), the merge of the      *)
(* probe outputs in discovery.scan (services/discovery.py) and the event   *)
(* fan-out of the ConnectionManager (api/routers/ws.py).                   *)
(*                                                                         *)
(* The three writers are asyncio tasks on one event loop: each runs until  *)
(* its next await, so an action is the code between two awaits that touch  *)
(* the inventory.  The scheduler runs at most one discovery_job and one    *)
(* monitoring_tick at a time.  The network holds one host, so a scan       *)
(* returns at most one entry.                                              *)
(***************************************************************************)
EXTENDS Integers, Sequences, FiniteSets, TLC

\* ------------------------------------------------------------- bounds
\* int(time.time()) takes the values 0..MaxTime.
MaxTime == 1
\* A run makes at most MaxCalls calls of upsert_device.
MaxCalls == 4
\* A run of SpecRepo makes at most MaxRepoCalls direct calls of upsert_device.
MaxRepoCalls == 2
\* A run of SpecSerial starts at most MaxCycles cycles.
MaxCycles == 4
\* A run of SpecWs makes at most MaxBroadcasts calls of broadcast.
MaxBroadcasts == 2
\* A probe of discovery.scan returns a list of at most MaxProbe entries.
MaxProbe == 2

\* ------------------------------------------------------------- values
\* Python None / SQL NULL in a TEXT column.
None == "None"
\* SQL NULL in an INTEGER column (first_seen, last_seen).
NoTs == -1

IPs == {"10.0.0.5"}
MACs == {"aa:bb:cc:00:00:05"}
Hostnames == {"printer.lan"}
\* The values direct repository calls draw ip and hostname from.
RepoIPs == IPs \cup {"10.0.0.9"}
RepoHostnames == Hostnames \cup {"lobby-printer"}
Ids == RepoIPs \cup MACs \cup {"unknown"}
Vendors == {"Acme"}
DeviceTypes == {"workstation"}
Sources == {"arp", "icmp"}
Times == 0..MaxTime
\* The WebSocket objects of the clients that connect to /ws/stream.
Sockets == {"ws1", "ws2", "ws3"}
\* The JSON messages a client receives: the hello of stream and the events the
\* jobs broadcast, told apart by the number of the broadcast call.
NoMessage == [type |-> "none"]
Hello == [type |-> "hello"]
Event(n) == [type |-> "event", n |-> n]

\* The coroutines that call upsert_device on the shared connection at once.
Callers == {"job", "request"}
\* No upsert_device call in flight.
NoData == [id |-> "None"]

\* A tags dict: a function from a set of keys to strings.
EmptyTags == [k \in {} |-> None]
SourceTags(s) == [k \in {"source"} |-> s]
TagMaps == {EmptyTags} \cup {SourceTags(s) : s \in Sources}

\* json.dumps of a tags dict, as the text stored in devices.tags.
JsonDumps(tags) ==
    IF DOMAIN tags = {} THEN "{}"
    ELSE "{\"source\": \"" \o tags["source"] \o "\"}"

\* The except branch of the readers: tags = {}.
JsonLoadsRaises(text) == EmptyTags

\* json.loads of a stored tags text (list_devices / get_device).
JsonLoads(text) ==
    IF text = None \/ \A m \in TagMaps : JsonDumps(m) # text THEN EmptyTags
    ELSE CHOOSE m \in TagMaps : JsonDumps(m) = text

\* SQL COALESCE(a, b) on a TEXT and on an INTEGER column.
CoalesceTakesNull(a, b) == a
Coalesce(a, b) == IF a # None THEN a ELSE b
CoalesceTs(a, b) == IF a # NoTs THEN a ELSE b

\* The values of identify_device.
\* bool(v) of an Optional[str]: None and the empty string are false.
Truthy(v) == v \notin {None, ""}

\* The keys of result.
IdentFields == {"vendor", "hostname", "description", "uptime", "contact", "location", "object_id"}
\* result as identify_device initialises it.
NullResult == [k \in IdentFields |-> None]

\* lookup_vendor(mac) raised.
Raises == "raises"
\* What lookup_vendor(mac) does: a vendor, None for a miss, or an exception.
OuiOutcomes == Vendors \cup {None, Raises}

\* The keys of the dictionary snmp_identify returns.
SnmpKeys == {"hostname", "description", "uptime", "contact", "location", "object_id"}
\* sysName as the agent reports it: absent, empty or a name.
SnmpHostnames == {None, "", "sw1"}
\* The remaining system group of an agent that answers every OID.
SnmpSystem == [description |-> "Switch", uptime |-> "12345678", contact |-> "admin@lan", location |-> "rack 4", object_id |-> "1.3.6.1.4.1.9"]
\* The dictionaries snmp_identify returns: every key present, a value None
\* where the agent gave no answer for the OID.
SnmpAnswers == {[k \in SnmpKeys |-> IF k = "hostname" THEN h ELSE IF k = "description" THEN (IF d THEN SnmpSystem[k] ELSE None) ELSE IF o THEN SnmpSystem[k] ELSE None] : h \in SnmpHostnames, d \in BOOLEAN, o \in BOOLEAN}
\* What snmp_query does: <<>> when it raises, <<snmp_data>> when it returns.
SnmpOutcomes == {<<>>} \cup {<<a>> : a \in SnmpAnswers}

\* What socket.gethostbyaddr does within the timeout: a name, a resolver
\* error, or no answer in time.
DnsOutcomes == Hostnames \cup {"herror", "timeout"}
\* dns_reverse_lookup: the name, None on socket.herror, socket.gaierror,
\* asyncio.TimeoutError and on any other exception.
DnsReverseLookup(out) == IF out \in {"herror", "timeout"} THEN None ELSE out

\* The arguments of a call (ip plays no part in the result) and the answers
\* the three sources give during it.
IdentArgs == [mac : MACs \cup {None}, use_oui : BOOLEAN, use_snmp : BOOLEAN, use_dns : BOOLEAN]
IdentEnvs == [oui : OuiOutcomes, snmp : SnmpOutcomes, dns : DnsOutcomes]
NoArgs == [mac |-> None, use_oui |-> FALSE, use_snmp |-> FALSE, use_dns |-> FALSE]
NoEnv == [oui |-> None, snmp |-> <<>>, dns |-> "herror"]

\* The values of ping_device. A percentage is an integer, a latency is in
\* microseconds, and an Optional[float] is <<>> for None or <<x>>.
\* The statistics lines ping prints.
LossLines == {"4 packets transmitted, 4 received, 0% packet loss", "4 packets transmitted, 2 received, 50% packet loss", "4 packets transmitted, 0 received, 100% packet loss"}
\* The rtt lines ping prints when at least one reply came back.
RttLines == {"rtt min/avg/max/mdev = 0.123/0.595/1.012/0.334 ms", "rtt min/avg/max/mdev = 12.500/20.000/31.000/7.100 ms"}
\* stdout of the process: a header, then the two lines, each present or not.
PingOutputs == {<<"PING">> \o s \o r : s \in {<<>>} \cup {<<l>> : l \in LossLines}, r \in {<<>>} \cup {<<l>> : l \in RttLines}}
\* What running ping does: create_subprocess_exec or communicate raises, or
\* the process exits with a return code and an output.
PingRuns == [raises : {TRUE}, returncode : {0}, output : {<<>>}] \cup [raises : {FALSE}, returncode : {0, 1, 2}, output : PingOutputs]
NoRun == [raises |-> FALSE, returncode |-> 0, output |-> <<>>]
NoResult == [ip |-> None, status |-> "none", latency_avg |-> <<>>, latency_min |-> <<>>, latency_max |-> <<>>, packet_loss |-> 0]

\* The entry d a caller of identify_device holds: mac and hostname as the
\* scan gave them (mDNS entries carry a hostname), nothing identified yet.
Candidate(mac, hostname) == [mac |-> mac, hostname |-> hostname, vendor |-> None, description |-> None]
CandidateHostnames == {None, "cam.local"}

\* An ARP method that gave no entries, and the three of them before a scan.
NoEntries(status) == [status |-> status, entries |-> <<>>]
NoMethods == [scapy |-> NoEntries("unavailable"), arpscan |-> NoEntries("unavailable"), cache |-> NoEntries("error")]

\* The values of ping_sweep: network.hosts() of the CIDR swept, in order, and
\* the arguments of a call.
NetworkHosts == <<"10.0.0.5", "10.0.0.9", "10.0.0.13">>
Network == {NetworkHosts[i] : i \in 1..Len(NetworkHosts)}
SweepArgs == [cidr_ok : BOOLEAN, concurrency : 0..2, max_hosts : 2..3]
NoSweep == [cidr_ok |-> FALSE, concurrency |-> 0, max_hosts |-> 2]

\* ------------------------------------------------------------- state
VARIABLES
    store,      \* table devices: id -> row, for the ids that have a row
    clock,      \* int(time.time())
    djPc,       \* discovery_job: "idle" | "loop" | "got"
    djResults,  \* discovery_job: results still to persist
    djNow,      \* discovery_job: now, read before the loop
    djExisting, \* discovery_job: existing, <<>> for None or <<row>>
    mtPc,       \* monitoring_tick: "idle" | "loop"
    mtDevices,  \* monitoring_tick: devices, the list read at its start
    mtTodo,     \* monitoring_tick: ids of mtDevices not yet processed
    mtInflux,   \* monitoring_tick: influx_writer is set (a metric sink is configured)
    ncalls,     \* number of upsert_device calls made so far
    prev,       \* history: store just before the upsert_device call of this step
    last,       \* history: the upsert_device call of the step just taken
    emitted,    \* events broadcast by the step just taken, in order
    log,        \* history: the cycles started so far, with the inputs each one read
    active_connections, \* ConnectionManager.active_connections, a list of sockets
    stPc,       \* stream(ws) of each socket: "new" | "accepted" | "open" | "closed"
    broken,     \* sockets whose client has gone: send_json and receive_text raise
    received,   \* the messages each client has received, in order
    bcPc,       \* broadcast: "idle" | "sending" (suspended in send_json)
    bcMessage,  \* broadcast: message
    bcIter,     \* broadcast: the list iterator's position in active_connections
    bcConn,     \* broadcast: connection, the socket of the pending send_json
    bcDisconnected, \* broadcast: disconnected
    bcStart,    \* history: active_connections when the broadcast began
    bcDelivered,    \* history: the sockets the broadcast has delivered to, in order
    bcChanged,  \* history: a stream handler changed the list since it began
    nbroadcasts,    \* number of broadcast calls made so far
    scPc,       \* discovery.scan: "idle" | "arp" | "icmp" | "done" | "raised"
    scMethods,  \* what scapy, arp-scan and "ip neigh" answer during this scan
    scRan,      \* history: the ARP methods arp_scan ran, in order
    scFailed,   \* history: the probes whose await raised in scan
    scArp,      \* history: the list arp_scan returned
    scAlive,    \* history: the list ping_sweep returned
    scMdns,     \* history: the list mdns_discover returned
    scDevices,  \* discovery.scan: devices
    scSeen,     \* discovery.scan: seen_ips
    idPc,       \* identify_device: "idle" | "oui" | "snmp" | "dns" | "returned" | "merged"
    idCalled,   \* history: the sources identify_device has queried in this call
    idCandidate,    \* the caller's d: the entry of the scan the call is made for
    idArgs,     \* identify_device: mac, use_oui, use_snmp, use_dns
    idEnv,      \* what lookup_vendor, snmp_query and gethostbyaddr answer in this call
    idResult,   \* identify_device: result
    pgPc,       \* ping_device: "idle" | "communicate" | "returned"
    pgIp,       \* ping_device: ip
    pgRun,      \* what starting and awaiting the ping process does in this call
    pgResult,   \* ping_device: the dictionary returned
    swPc,       \* ping_sweep: "idle" | "gather" | "returned"
    swArgs,     \* ping_sweep: concurrency, max_hosts
    swHosts,    \* ping_sweep: hosts
    swSem,      \* ping_sweep: the value of sem
    swTask,     \* ping_one(ip) of each host: "waiting" | "probing" | "done"
    swStarted,  \* history: how many ping processes were started for each host
    swOk,       \* the value each finished ping_one returned
    swAlive,    \* ping_sweep: alive
    announced,  \* history: the ids discovery_job broadcast device_discovered for
    upPc,       \* upsert_device of each caller: "idle" | "delete" | "insert" | "commit"
    upData,     \* upsert_device of each caller: data
    upOld,      \* upsert_device of each caller: old_row is set
    durable     \* the devices table as of the connection's last commit

djVars == <<djPc, djResults, djNow, djExisting>>
mtVars == <<mtPc, mtDevices, mtTodo, mtInflux>>
histVars == <<prev, last, emitted>>
\* The inventory pipeline: the table, the clock and the three writers.
plVars == <<store, clock, djVars, mtVars, ncalls>>
\* The ConnectionManager, the stream handlers and the broadcast in flight.
wsVars == <<active_connections, stPc, broken, received, bcPc, bcMessage, bcIter, bcConn, bcDisconnected, bcStart, bcDelivered, bcChanged, nbroadcasts>>
\* One call of discovery.scan.
scVars == <<scPc, scMethods, scRan, scFailed, scArp, scAlive, scMdns, scDevices, scSeen>>

\* One call of identify_device.
idVars == <<idPc, idCalled, idCandidate, idArgs, idEnv, idResult>>
\* One call of ping_device.
pgVars == <<pgPc, pgIp, pgRun, pgResult>>
\* One call of ping_sweep.
swVars == <<swPc, swArgs, swHosts, swSem, swTask, swStarted, swOk, swAlive>>
\* The calls of the functions that touch neither the table nor the sockets,
\* and the record of the announcements.
\* The statements of upsert_device calls in flight on the connection.
upVars == <<upPc, upData, upOld, durable>>
fnVars == <<idVars, pgVars, swVars, announced, upVars>>

vars == <<plVars, histVars, log, wsVars, scVars, fnVars>>

\* ------------------------------------------------------------- inventory
EmptyStore == [k \in {} |-> None]

\* The dict a caller passes to upsert_device; an absent key reads as None.
Payload(id, ip, mac, hostname, vendor, device_type, status, first_seen, last_seen, tags) ==
    [id |-> id, ip |-> ip, mac |-> mac, hostname |-> hostname,
     vendor |-> vendor, device_type |-> device_type, status |-> status,
     first_seen |-> first_seen, last_seen |-> last_seen, tags |-> tags]

\* data.get("tags") or {}: tags is <<>> when the key is absent, else <<dict>>.
TagsOrEmpty(data) == IF data.tags = <<>> THEN EmptyTags ELSE data.tags[1]

\* SELECT id FROM devices WHERE ip=? AND id=? AND mac IS NULL, with (ip, ip).
IpOnlyRow(st, ip) ==
    /\ ip \in DOMAIN st
    /\ st[ip].ip = ip
    /\ st[ip].mac = None

DeleteRow(st, id) == [k \in DOMAIN st \ {id} |-> st[k]]

PutRow(st, id, row) ==
    [k \in DOMAIN st \cup {id} |-> IF k = id THEN row ELSE st[k]]

\* The row INSERT ... VALUES builds when the id has no row.
InsertedRow(data) ==
    [id |-> data.id, ip |-> data.ip, mac |-> data.mac,
     hostname |-> data.hostname, vendor |-> data.vendor,
     device_type |-> data.device_type, status |-> data.status,
     first_seen |-> data.first_seen, last_seen |-> data.last_seen,
     tags |-> JsonDumps(TagsOrEmpty(data))]

\* ON CONFLICT(id) DO UPDATE SET ...: excluded is the row INSERT would build.
ConflictRowNewFirstSeen(old, excluded) ==
    [id |-> old.id,
     ip |-> Coalesce(excluded.ip, old.ip),
     mac |-> Coalesce(excluded.mac, old.mac),
     hostname |-> Coalesce(excluded.hostname, old.hostname),
     vendor |-> Coalesce(excluded.vendor, old.vendor),
     device_type |-> Coalesce(excluded.device_type, old.device_type),
     status |-> Coalesce(excluded.status, old.status),
     first_seen |-> CoalesceTs(excluded.first_seen, old.first_seen),
     last_seen |-> CoalesceTs(excluded.last_seen, old.last_seen),
     tags |-> Coalesce(excluded.tags, old.tags)]

ConflictRow(old, excluded) ==
    [id |-> old.id,
     ip |-> Coalesce(excluded.ip, old.ip),
     mac |-> Coalesce(excluded.mac, old.mac),
     hostname |-> Coalesce(excluded.hostname, old.hostname),
     vendor |-> Coalesce(excluded.vendor, old.vendor),
     device_type |-> Coalesce(excluded.device_type, old.device_type),
     status |-> Coalesce(excluded.status, old.status),
     first_seen |-> CoalesceTs(old.first_seen, excluded.first_seen),
     last_seen |-> CoalesceTs(excluded.last_seen, old.last_seen),
     tags |-> Coalesce(excluded.tags, old.tags)]

\* SqliteInventoryRepo.upsert_device(data): the table after the call.
UpsertDevice(st, data) ==
    LET merged == IF data.mac # None /\ data.ip # None /\ IpOnlyRow(st, data.ip)
                  THEN DeleteRow(st, data.ip)
                  ELSE st
        row == IF data.id \in DOMAIN merged
               THEN ConflictRow(merged[data.id], InsertedRow(data))
               ELSE InsertedRow(data)
    IN PutRow(merged, data.id, row)

\* The INSERT ... ON CONFLICT statement of upsert_device alone, on table st.
InsertStatement(st, data) ==
    PutRow(st, data.id,
           IF data.id \in DOMAIN st
           THEN ConflictRow(st[data.id], InsertedRow(data))
           ELSE InsertedRow(data))

\* list_devices / get_device: a row as the dict the callers see.
RowDict(row) == [row EXCEPT !.tags = JsonLoads(row.tags)]
ListDevices(st) == [k \in DOMAIN st |-> RowDict(st[k])]
GetDevice(st, id) == IF id \in DOMAIN st THEN <<RowDict(st[id])>> ELSE <<>>

\* The keys monitoring_tick reads of a device of the list.
MonitoredDevice(dict) ==
    [id |-> dict.id, ip |-> dict.ip, hostname |-> dict.hostname,
     vendor |-> dict.vendor, status |-> dict.status,
     last_seen |-> dict.last_seen]

\* The key discovery_job reads of existing.
ExistingDevice(dict) == [first_seen |-> dict.first_seen]

\* ------------------------------------------------------------- Init
NoCall == [op |-> "none"]

Init ==
    /\ store = EmptyStore
    /\ clock = 0
    /\ djPc = "idle" /\ djResults = <<>> /\ djNow = 0 /\ djExisting = <<>>
    /\ mtPc = "idle" /\ mtDevices = EmptyStore /\ mtTodo = {}
    /\ mtInflux = FALSE
    /\ ncalls = 0
    /\ prev = EmptyStore
    /\ last = NoCall
    /\ emitted = <<>>
    /\ log = <<>>
    /\ active_connections = <<>>
    /\ stPc = [w \in Sockets |-> "new"]
    /\ broken = {}
    /\ received = [w \in Sockets |-> <<>>]
    /\ bcPc = "idle" /\ bcMessage = NoMessage /\ bcIter = 0 /\ bcConn = <<>>
    /\ bcDisconnected = <<>>
    /\ bcStart = <<>> /\ bcDelivered = <<>> /\ bcChanged = FALSE
    /\ nbroadcasts = 0
    /\ scPc = "idle" /\ scArp = <<>> /\ scAlive = <<>> /\ scMdns = <<>>
    /\ scMethods = NoMethods /\ scRan = <<>> /\ scFailed = {}
    /\ scDevices = <<>> /\ scSeen = {}
    /\ idPc = "idle" /\ idArgs = NoArgs /\ idEnv = NoEnv /\ idResult = NullResult
    /\ idCalled = {} /\ idCandidate = Candidate(None, None)
    /\ pgPc = "idle" /\ pgIp = None /\ pgRun = NoRun /\ pgResult = NoResult
    /\ swPc = "idle" /\ swArgs = NoSweep /\ swHosts = <<>> /\ swSem = 0
    /\ swTask = [ip \in Network |-> "waiting"]
    /\ swStarted = [ip \in Network |-> 0]
    /\ swOk = [ip \in Network |-> FALSE]
    /\ swAlive = <<>>
    /\ announced = {}
    /\ upPc = [c \in Callers |-> "idle"]
    /\ upData = [c \in Callers |-> NoData]
    /\ upOld = [c \in Callers |-> FALSE]
    /\ durable = EmptyStore

\* A step that calls neither upsert_device nor broadcast.
NoHistory == prev' = EmptyStore /\ last' = NoCall /\ emitted' = <<>>

\* time.time() moves on between two steps.
Tick ==
    /\ clock < MaxTime
    /\ clock' = clock + 1
    /\ NoHistory
    /\ UNCHANGED <<store, djVars, mtVars, ncalls>>

\* ------------------------------------------------------------- discovery
\* An entry of the list discovery.scan returns, after identify_device has
\* filled in vendor and hostname.  A host answers the ICMP sweep alone (no
\* MAC, nothing identified) or the ARP scan (its MAC, the OUI vendor of that
\* MAC and the hostname its agent reports).
MacOf(ip) == CHOOSE m \in MACs : TRUE
Sightings ==
    {[ip |-> ip, mac |-> None, hostname |-> None, vendor |-> None,
      source |-> "icmp"] : ip \in IPs}
    \cup
    {[ip |-> ip, mac |-> MacOf(ip), hostname |-> h, vendor |-> v,
      source |-> "arp"] : ip \in IPs, h \in Hostnames, v \in Vendors}

\* The lists discovery.scan can return: at most one entry for the host.
ScanLists == {<<>>} \cup {<<d>> : d \in Sightings}

\* dev_id = d.get("mac") or d.get("ip") or "unknown"
DevId(mac, ip) == IF mac # None THEN mac ELSE IF ip # None THEN ip ELSE "unknown"

\* device_data of discovery_job for result d, with existing as read.
DiscoveryData(d, existing, now) ==
    Payload(DevId(d.mac, d.ip), d.ip, d.mac, d.hostname, d.vendor, None,
            "unknown",
            IF existing = <<>> THEN now ELSE existing[1].first_seen,
            now, <<SourceTags(d.source)>>)

DiscoveredEvent(d, now) ==
    [type |-> "device_discovered",
     device |-> [id |-> DevId(d.mac, d.ip), ip |-> d.ip, mac |-> d.mac,
                 hostname |-> d.hostname, vendor |-> d.vendor,
                 source |-> d.source],
     ts |-> now]

\* discovery_job up to "now = int(time.time())": scan, identify, read the clock.
DiscoveryStart ==
    /\ djPc = "idle"
    /\ \E results \in ScanLists :
        /\ djResults' = results
        /\ djPc' = IF results = <<>> THEN "idle" ELSE "loop"
    /\ djNow' = clock
    /\ NoHistory
    /\ UNCHANGED <<store, clock, djExisting, mtVars, ncalls>>

\* existing = await repo.get_device(dev_id)
DiscoveryGet ==
    /\ djPc = "loop"
    /\ LET d == Head(djResults)
           existing == GetDevice(store, DevId(d.mac, d.ip))
       IN djExisting' = IF existing = <<>> THEN <<>>
                        ELSE <<ExistingDevice(existing[1])>>
    /\ djPc' = "got"
    /\ NoHistory
    /\ UNCHANGED <<store, clock, djResults, djNow, mtVars, ncalls>>

\* await repo.upsert_device(device_data); broadcast device_discovered if new.
DiscoveryUpsert ==
    /\ djPc = "got"
    /\ ncalls < MaxCalls
    /\ ncalls' = ncalls + 1
    /\ LET d == Head(djResults)
           data == DiscoveryData(d, djExisting, djNow)
       IN /\ store' = UpsertDevice(store, data)
          /\ prev' = store
          /\ last' = [op |-> "discovery", data |-> data, ping |-> "none",
                      read |-> djExisting]
          /\ emitted' = IF djExisting = <<>>
                        THEN <<DiscoveredEvent(d, djNow)>> ELSE <<>>
    /\ djResults' = Tail(djResults)
    /\ djPc' = IF Tail(djResults) = <<>> THEN "idle" ELSE "loop"
    /\ djExisting' = <<>>
    /\ UNCHANGED <<clock, djNow, mtVars>>

\* ------------------------------------------------------------- on-demand scan
\* device_data of discovery_scan for device d: no status key.
ScanData(d, now) ==
    Payload(DevId(d.mac, d.ip), d.ip, d.mac, d.hostname, d.vendor, None,
            None, now, now, <<SourceTags(d.source)>>)

\* POST /discovery/scan with persist=True: scan, identify, read the clock and
\* upsert the device found (no await lies between the two).
DiscoveryScan ==
    /\ ncalls < MaxCalls
    /\ ncalls' = ncalls + 1
    /\ \E devices \in ScanLists :
        /\ devices # <<>>
        /\ LET data == ScanData(devices[1], clock)
           IN /\ store' = UpsertDevice(store, data)
              /\ prev' = store
              /\ last' = [op |-> "scan", data |-> data, ping |-> "none",
                          read |-> <<>>]
              /\ emitted' = <<>>
    /\ UNCHANGED <<clock, djVars, mtVars>>

\* ------------------------------------------------------------- monitoring
\* metrics_data["status"] of ping_device.
PingStatuses == {"up", "down", "error"}

\* The payload monitoring_tick upserts for device, with the probe's status.
MonitoringData(device, current_status, now) ==
    Payload(device.id, None, None, None, None, None,
            IF current_status \in {"up", "down"}
            THEN current_status ELSE device.status,
            NoTs,
            IF current_status = "up" THEN now ELSE device.last_seen,
            <<>>)

LatencyEvent(device, now) ==
    [type |-> "latency", device_id |-> device.id, ip |-> device.ip, ts |-> now]

TransitionEvent(device, current_status, now) ==
    [type |-> IF current_status = "up" THEN "device_up" ELSE "device_down",
     device_id |-> device.id, ip |-> device.ip,
     hostname |-> device.hostname, vendor |-> device.vendor,
     previous_status |-> device.status, ts |-> now]

\* The points monitoring_tick writes to the metric sink for device: one
\* "latency" point when influx_writer is set and the probe did not error.
MetricWritesAlways(influx_writer, device, current_status) ==
    IF influx_writer
    THEN <<[measurement |-> "latency", device_id |-> device.id,
            ip |-> device.ip]>>
    ELSE <<>>
MetricWrites(influx_writer, device, current_status) ==
    IF influx_writer /\ current_status # "error"
    THEN <<[measurement |-> "latency", device_id |-> device.id,
            ip |-> device.ip]>>
    ELSE <<>>

\* The events monitoring_tick broadcasts for device, in order.
MonitoringEvents(device, current_status, now) ==
    (IF current_status = "up" THEN <<LatencyEvent(device, now)>> ELSE <<>>)
    \o (IF current_status \in {"up", "down"} /\ current_status # device.status
        THEN <<TransitionEvent(device, current_status, now)>> ELSE <<>>)

\* devices = await repo.list_devices(); an empty list returns at once.
MonitoringStart ==
    /\ mtPc = "idle"
    /\ DOMAIN store # {}
    /\ mtDevices' = [k \in DOMAIN store |->
                        MonitoredDevice(ListDevices(store)[k])]
    /\ mtTodo' = DOMAIN store
    /\ mtPc' = "loop"
    /\ mtInflux' \in BOOLEAN
    /\ NoHistory
    /\ UNCHANGED <<store, clock, djVars, ncalls>>

\* "if not ip or not device_id: continue": no ping, no broadcast, no write.
MonitoringSkip ==
    /\ mtPc = "loop"
    /\ \E id \in mtTodo :
        /\ mtDevices[id].ip = None
        /\ mtTodo' = mtTodo \ {id}
        /\ mtPc' = IF mtTodo' = {} THEN "idle" ELSE "loop"
        /\ mtInflux' = (mtInflux /\ mtTodo' # {})
        /\ prev' = store
        /\ last' = [op |-> "skip", ping |-> "none", read |-> <<mtDevices[id]>>,
                    metric |-> <<>>]
        /\ emitted' = <<>>
    /\ UNCHANGED <<store, clock, mtDevices, djVars, ncalls>>

\* One device of the loop: ping, broadcast, upsert status and last_seen.
MonitoringDevice ==
    /\ mtPc = "loop"
    /\ ncalls < MaxCalls
    /\ ncalls' = ncalls + 1
    /\ \E id \in mtTodo, current_status \in PingStatuses :
        LET device == mtDevices[id]
            data == MonitoringData(device, current_status, clock)
        IN /\ device.ip # None
           /\ store' = UpsertDevice(store, data)
           /\ prev' = store
           /\ last' = [op |-> "monitoring", data |-> data,
                       ping |-> current_status, read |-> <<device>>,
                       influx |-> mtInflux,
                       metric |-> MetricWrites(mtInflux, device, current_status)]
           /\ emitted' = MonitoringEvents(device, current_status, clock)
           /\ mtTodo' = mtTodo \ {id}
           /\ mtPc' = IF mtTodo' = {} THEN "idle" ELSE "loop"
           /\ mtInflux' = (mtInflux /\ mtTodo' # {})
    /\ UNCHANGED <<clock, mtDevices, djVars>>

\* The variables the inventory pipeline leaves alone.
extVars == <<log, wsVars, scVars, fnVars>>

Next ==
    \/ Tick /\ UNCHANGED extVars
    \/ DiscoveryStart /\ UNCHANGED extVars
    \/ DiscoveryGet /\ UNCHANGED extVars
    \/ DiscoveryUpsert /\ UNCHANGED extVars
    \/ DiscoveryScan /\ UNCHANGED extVars
    \/ MonitoringStart /\ UNCHANGED extVars
    \/ MonitoringSkip /\ UNCHANGED extVars
    \/ MonitoringDevice /\ UNCHANGED extVars

Spec == Init /\ [][Next]_vars

\* ------------------------------------------------------------- faults
\* The awaited calls of discovery_job that lie in its outer try (line 11,
\* "except Exception" at line 88): all of them.
DiscoveryTryButStore == {"scan", "identify", "broadcast"}
DiscoveryTry == {"scan", "identify", "get_device", "upsert_device", "broadcast"}
\* The call in the try of the identification loop (lines 25-36).
IdentifyTry == {"identify"}
\* The awaited calls of monitoring_tick in its outer try (lines 94-198) and
\* those in the try of the device loop (lines 122-195).
TickTry == {"list_devices", "ping_device", "write_metric", "broadcast", "upsert_device"}
DeviceTryButStore == {"ping_device", "write_metric", "broadcast"}
DeviceTry == {"ping_device", "write_metric", "broadcast", "upsert_device"}

\* The step just taken: the call named at raised in the job.
Fault(job, at, read) == [op |-> "fault", job |-> job, at |-> at, ping |-> "none", read |-> read]
\* Where a job is after a call raised in it: at resume when an inner handler
\* caught the exception, returned when its outer handler did, and gone with
\* the exception otherwise.
AfterRaise(at, inner, outer, resume) == IF at \in inner THEN resume ELSE IF at \in outer THEN "idle" ELSE "crashed"

\* A result identify_device raised for: vendor and hostname stay as
\* discovery.scan gave them, which for its ARP and ICMP entries is unset.
Unidentified(d) == [d EXCEPT !.hostname = None, !.vendor = None]

\* discovery.scan raises in discovery_job: nothing is persisted.
DiscoveryScanRaises ==
    /\ djPc = "idle"
    /\ djPc' = AfterRaise("scan", {}, DiscoveryTry, "idle")
    /\ prev' = store
    /\ last' = Fault("discovery", "scan", <<>>)
    /\ emitted' = <<>>
    /\ UNCHANGED <<store, clock, djResults, djNow, djExisting, mtVars, ncalls>>

\* identify_device raises for the result: the job goes on to persist it.
DiscoveryIdentifyRaises ==
    /\ djPc = "idle"
    /\ \E results \in ScanLists :
        /\ results # <<>>
        /\ djPc' = AfterRaise("identify", IdentifyTry, DiscoveryTry, "loop")
        /\ djResults' = IF djPc' = "loop" THEN <<Unidentified(results[1])>> ELSE <<>>
    /\ djNow' = clock
    /\ prev' = store
    /\ last' = Fault("discovery", "identify", <<>>)
    /\ emitted' = <<>>
    /\ UNCHANGED <<store, clock, djExisting, mtVars, ncalls>>

\* repo.get_device or repo.upsert_device raises in the loop of discovery_job:
\* the table is as it was and the rest of the results is dropped.
DiscoveryStoreRaises ==
    /\ djPc \in {"loop", "got"}
    /\ LET at == IF djPc = "loop" THEN "get_device" ELSE "upsert_device"
       IN /\ djPc' = AfterRaise(at, {}, DiscoveryTry, "idle")
          /\ last' = Fault("discovery", at, djExisting)
    /\ djResults' = <<>>
    /\ djExisting' = <<>>
    /\ prev' = store
    /\ emitted' = <<>>
    /\ UNCHANGED <<store, clock, djNow, mtVars, ncalls>>

\* The broadcast of device_discovered raises: the row is written, no event
\* is sent and the rest of the results is dropped.
DiscoveryBroadcastRaises ==
    /\ djPc = "got"
    /\ djExisting = <<>>
    /\ ncalls < MaxCalls
    /\ ncalls' = ncalls + 1
    /\ store' = UpsertDevice(store, DiscoveryData(Head(djResults), djExisting, djNow))
    /\ djPc' = AfterRaise("broadcast", {}, DiscoveryTry, "idle")
    /\ djResults' = <<>>
    /\ djExisting' = <<>>
    /\ prev' = store
    /\ last' = Fault("discovery", "broadcast", <<>>)
    /\ emitted' = <<>>
    /\ UNCHANGED <<clock, djNow, mtVars>>

\* repo.list_devices raises in monitoring_tick: the tick returns.
MonitoringListRaises ==
    /\ mtPc = "idle"
    /\ mtPc' = AfterRaise("list_devices", {}, TickTry, "idle")
    /\ prev' = store
    /\ last' = Fault("monitoring", "list_devices", <<>>)
    /\ emitted' = <<>>
    /\ UNCHANGED <<store, clock, mtDevices, mtTodo, mtInflux, djVars, ncalls>>

\* A call raises while the loop of monitoring_tick handles a device: the
\* events broadcast before it are out, the row is not written, and the loop
\* goes on with the next device.
MonitoringDeviceRaises ==
    /\ mtPc = "loop"
    /\ \E id \in mtTodo, at \in TickTry \ {"list_devices"}, current_status \in PingStatuses :
        LET device == mtDevices[id]
            events == MonitoringEvents(device, current_status, clock)
            resume == IF mtTodo \ {id} = {} THEN "idle" ELSE "loop"
        IN /\ device.ip # None
           /\ at = "write_metric" => (mtInflux /\ current_status # "error")
           /\ at = "broadcast" => events # <<>>
           /\ emitted' = IF at = "upsert_device" THEN events ELSE <<>>
           /\ mtPc' = AfterRaise(at, DeviceTry, TickTry, resume)
           /\ mtTodo' = IF mtPc' = "loop" THEN mtTodo \ {id} ELSE {}
           /\ mtInflux' = (mtInflux /\ mtTodo' # {})
           /\ last' = Fault("monitoring", at, <<device>>)
    /\ prev' = store
    /\ UNCHANGED <<store, clock, mtDevices, djVars, ncalls>>

\* The jobs and the on-demand scan with the calls that raise in the jobs; the
\* clock stands still, which no handler looks at.
NextFaults ==
    \/ DiscoveryStart /\ UNCHANGED extVars
    \/ DiscoveryGet /\ UNCHANGED extVars
    \/ DiscoveryUpsert /\ UNCHANGED extVars
    \/ DiscoveryScan /\ UNCHANGED extVars
    \/ MonitoringStart /\ UNCHANGED extVars
    \/ MonitoringSkip /\ UNCHANGED extVars
    \/ MonitoringDevice /\ UNCHANGED extVars
    \/ DiscoveryScanRaises /\ UNCHANGED extVars
    \/ DiscoveryIdentifyRaises /\ UNCHANGED extVars
    \/ DiscoveryStoreRaises /\ UNCHANGED extVars
    \/ DiscoveryBroadcastRaises /\ UNCHANGED extVars
    \/ MonitoringListRaises /\ UNCHANGED extVars
    \/ MonitoringDeviceRaises /\ UNCHANGED extVars

SpecFaults == Init /\ [][NextFaults]_vars

\* ------------------------------------------------------------- POST /discovery/scan
\* The lists discovery.scan returns to a request, after identification: the
\* host of the jobs, alone or followed by a second host that answers the ICMP
\* sweep only.
Neighbour == [ip |-> "10.0.0.9", mac |-> None, hostname |-> None, vendor |-> None, source |-> "icmp"]
RequestLists == ScanLists \cup {<<Neighbour>>} \cup {<<d, Neighbour>> : d \in Sightings}

\* The devices of the response: identified only "if identify_flag".
IdentifyAll(devices, identify_flag) == [i \in 1..Len(devices) |-> IF identify_flag THEN devices[i] ELSE Unidentified(devices[i])]

\* "for d in devices: ... await repo.upsert_device(device_data)"
RECURSIVE PersistAll(_, _, _)
PersistAll(st, devices, now) ==
    IF devices = <<>> THEN st
    ELSE PersistAll(UpsertDevice(st, ScanData(Head(devices), now)), Tail(devices), now)

\* "persisted": persist and repo is not None
PersistedNever(persist, repo) == FALSE
Persisted(persist, repo) == persist /\ repo

\* The awaited calls of discovery_scan that lie in a try: identify_device
\* (lines 75-89).  discovery.scan and repo.upsert_device are awaited outside.
RequestTry == {"identify"}

\* What the client gets: <<>> for the error response of an exception that
\* left the handler, <<body>> for the dictionary returned.
Response(devices, persist, repo, identify_flag, raised) == IF raised \ RequestTry # {} THEN <<>> ELSE <<[count |-> Len(devices), devices |-> devices, persisted |-> Persisted(persist, repo), identified |-> identify_flag]>>

\* One request: scan, identify, persist and answer.  repo is whether
\* app.state.inventory_repo is set; failed is the index of the device whose
\* upsert_device raises, 0 when none does.
ScanRequest ==
    /\ \E results \in RequestLists, persist \in BOOLEAN, identify_flag \in BOOLEAN, repo \in BOOLEAN :
        \E failed \in 0..(IF persist /\ repo THEN Len(results) ELSE 0) :
            LET devices == IdentifyAll(results, identify_flag)
                written == IF ~(persist /\ repo) THEN <<>> ELSE IF failed = 0 THEN devices ELSE SubSeq(devices, 1, failed - 1)
            IN /\ store' = PersistAll(store, written, clock)
               /\ prev' = store
               /\ last' = [op |-> "request", ping |-> "none", read |-> <<>>,
                           persist |-> persist, identify |-> identify_flag,
                           repo |-> repo, devices |-> devices, failed |-> failed,
                           response |-> Response(devices, persist, repo, identify_flag, IF failed = 0 THEN {} ELSE {"upsert_device"})]
               /\ emitted' = <<>>
    /\ UNCHANGED <<clock, djVars, mtVars, ncalls>>

NextApi ==
    \/ Tick /\ UNCHANGED extVars
    \/ ScanRequest /\ UNCHANGED extVars

SpecApi == Init /\ [][NextApi]_vars

\* ------------------------------------------------------------- repository
\* The payloads of direct upsert_device calls.  A caller derives the id from
\* the identity it supplies (mac, else ip); a call that supplies neither names
\* any id, as the monitoring write does.
RepoPayloads ==
    {data \in [id : Ids, ip : RepoIPs \cup {None}, mac : MACs \cup {None},
               hostname : RepoHostnames \cup {None},
               vendor : Vendors \cup {None},
               device_type : DeviceTypes \cup {None},
               status : {None}, first_seen : {0}, last_seen : {0},
               tags : {<<>>}] :
        (data.mac # None \/ data.ip # None) => data.id = DevId(data.mac, data.ip)}

\* await repo.upsert_device(data), called on the repository directly.
RepoUpsert ==
    /\ ncalls < MaxRepoCalls
    /\ ncalls' = ncalls + 1
    /\ \E data \in RepoPayloads :
        /\ store' = UpsertDevice(store, data)
        /\ prev' = store
        /\ last' = [op |-> "repo", data |-> data, ping |-> "none",
                    read |-> <<>>]
        /\ emitted' = <<>>
    /\ UNCHANGED <<clock, djVars, mtVars>>

NextRepo == RepoUpsert /\ UNCHANGED extVars

SpecRepo == Init /\ [][NextRepo]_vars

\* ------------------------------------------------------------- cycles
\* The record of a cycle in log: what the cycle read from outside the
\* inventory (the sighting, the clock, the probe results).
CycleScan(data) == [kind |-> "scan", data |-> data]
CycleDiscovery(d, now) == [kind |-> "discovery", d |-> d, now |-> now]
CycleTick(probes) == [kind |-> "tick", probes |-> probes]

\* The monitoring_tick in flight: the last tick of log.
LastTick ==
    CHOOSE i \in 1..Len(log) :
        log[i].kind = "tick" /\ \A j \in (i + 1)..Len(log) : log[j].kind # "tick"

\* discovery_job for one result, run with no other task in between.
RunDiscovery(st, d, now) ==
    LET existing == GetDevice(st, DevId(d.mac, d.ip))
    IN UpsertDevice(st, DiscoveryData(d,
            IF existing = <<>> THEN <<>> ELSE <<ExistingDevice(existing[1])>>,
            now))

\* The writes of monitoring_tick for the devices todo of the list devices,
\* device k probed with result f[k].
RECURSIVE TickWrites(_, _, _, _)
TickWrites(st, devices, todo, f) ==
    IF todo = {} THEN st
    ELSE LET k == CHOOSE x \in todo : TRUE
         IN TickWrites(UpsertDevice(st, MonitoringData(devices[k], f[k].ping,
                                                       f[k].now)),
                       devices, todo \ {k}, f)

\* monitoring_tick run with no other task in between: the tables it can leave.
\* A device the logged tick probed is probed with the logged result, any other
\* device with any result.
RunTick(st, probes) ==
    LET devices == [k \in DOMAIN st |-> MonitoredDevice(ListDevices(st)[k])]
        todo == {k \in DOMAIN devices : devices[k].ip # None}
    IN {TickWrites(st, devices, todo, f) :
            f \in {g \in [todo -> [ping : PingStatuses, now : Times]] :
                     \A k \in todo \cap DOMAIN probes : g[k] = probes[k]}}

RunCycle(st, cycle) ==
    CASE cycle.kind = "scan" -> {UpsertDevice(st, cycle.data)}
      [] cycle.kind = "discovery" -> {RunDiscovery(st, cycle.d, cycle.now)}
      [] cycle.kind = "tick" -> RunTick(st, cycle.probes)

\* The tables the cycles todo of log can leave when run one after another,
\* in any order, from table st.
RECURSIVE SerialOutcomes(_, _)
SerialOutcomes(st, todo) ==
    IF todo = {} THEN {st}
    ELSE UNION {UNION {SerialOutcomes(s2, todo \ {i}) : s2 \in RunCycle(st, log[i])} :
                    i \in todo}

\* The variables the logged pipeline leaves alone.
serFrame == <<wsVars, scVars, fnVars>>

\* The inventory pipeline of Next, each cycle logged as it starts and as it
\* reads; a run starts at most MaxCycles cycles.
NextSerial ==
    \/ Tick /\ UNCHANGED log /\ UNCHANGED serFrame
    \/ /\ Len(log) < MaxCycles
       /\ DiscoveryStart
       /\ log' = IF djResults' = <<>> THEN log
                 ELSE Append(log, CycleDiscovery(djResults'[1], djNow'))
       /\ UNCHANGED serFrame
    \/ DiscoveryGet /\ UNCHANGED log /\ UNCHANGED serFrame
    \/ DiscoveryUpsert /\ UNCHANGED log /\ UNCHANGED serFrame
    \/ /\ Len(log) < MaxCycles
       /\ DiscoveryScan
       /\ log' = Append(log, CycleScan(last'.data))
       /\ UNCHANGED serFrame
    \/ /\ Len(log) < MaxCycles
       /\ MonitoringStart
       /\ log' = Append(log, CycleTick(EmptyStore))
       /\ UNCHANGED serFrame
    \/ MonitoringSkip /\ UNCHANGED log /\ UNCHANGED serFrame
    \/ /\ MonitoringDevice
       /\ log' = [log EXCEPT ![LastTick].probes =
                    PutRow(@, last'.data.id, [ping |-> last'.ping, now |-> clock])]
       /\ UNCHANGED serFrame

SpecSerial == Init /\ [][NextSerial]_vars

\* ------------------------------------------------------------- event stream
Members(seq) == {seq[i] : i \in 1..Len(seq)}
Count(seq, w) == Cardinality({i \in 1..Len(seq) : seq[i] = w})

\* ConnectionManager.disconnect(websocket): list.remove of its first occurrence.
Disconnect(conns, w) ==
    IF w \in Members(conns)
    THEN LET i == CHOOSE j \in 1..Len(conns) :
                    conns[j] = w /\ \A k \in 1..(j - 1) : conns[k] # w
         IN SubSeq(conns, 1, i - 1) \o SubSeq(conns, i + 1, Len(conns))
    ELSE conns

\* "for conn in disconnected: self.disconnect(conn)"
RECURSIVE CleanUp(_, _)
CleanUp(conns, disconnected) ==
    IF disconnected = <<>> THEN conns
    ELSE CleanUp(Disconnect(conns, Head(disconnected)), Tail(disconnected))

\* The except branch of the send loop: the connection is noted in disconnected
\* and active_connections stays as it is until the loop has ended.
SendFailedDropsNow(conns, w) == Disconnect(conns, w)
SendFailed(conns, w) == conns

\* The stream handlers leave the broadcast's locals alone.
bcVars == <<bcPc, bcMessage, bcIter, bcConn, bcDisconnected, bcStart, bcDelivered, nbroadcasts>>

\* The client of w goes away: from now on send_json and receive_text raise.
ClientGone(w) ==
    /\ stPc[w] # "closed"
    /\ w \notin broken
    /\ broken' = broken \cup {w}
    /\ NoHistory
    /\ UNCHANGED <<active_connections, stPc, received, bcVars, bcChanged>>

\* stream(ws) up to its hello send: manager.connect accepts and registers the
\* socket.  accept raises when the client has gone, and stream ends there.
StreamConnect(w) ==
    /\ stPc[w] = "new"
    /\ IF w \in broken
       THEN /\ stPc' = [stPc EXCEPT ![w] = "closed"]
            /\ UNCHANGED <<active_connections, bcChanged>>
       ELSE /\ stPc' = [stPc EXCEPT ![w] = "accepted"]
            /\ active_connections' = Append(active_connections, w)
            /\ bcChanged' = (bcChanged \/ bcPc = "sending")
    /\ NoHistory
    /\ UNCHANGED <<broken, received, bcVars>>

\* stream(ws) resumes from the hello send: the client has the hello, or
\* send_json raised and the except branch calls manager.disconnect.
StreamHello(w) ==
    /\ stPc[w] = "accepted"
    /\ IF w \in broken
       THEN /\ stPc' = [stPc EXCEPT ![w] = "closed"]
            /\ active_connections' = Disconnect(active_connections, w)
            /\ bcChanged' = (bcChanged \/ (bcPc = "sending"
                                /\ w \in Members(active_connections)))
            /\ UNCHANGED received
       ELSE /\ stPc' = [stPc EXCEPT ![w] = "open"]
            /\ received' = [received EXCEPT ![w] = Append(@, Hello)]
            /\ UNCHANGED <<active_connections, bcChanged>>
    /\ NoHistory
    /\ UNCHANGED <<broken, bcVars>>

\* receive_text raises WebSocketDisconnect: manager.disconnect(ws).
StreamDisconnect(w) ==
    /\ stPc[w] = "open"
    /\ w \in broken
    /\ stPc' = [stPc EXCEPT ![w] = "closed"]
    /\ active_connections' = Disconnect(active_connections, w)
    /\ bcChanged' = (bcChanged \/ (bcPc = "sending"
                        /\ w \in Members(active_connections)))
    /\ NoHistory
    /\ UNCHANGED <<broken, received, bcVars>>

\* The record of a broadcast call that has returned.
Broadcast(message, start, before, failed, delivered, changed) ==
    [op |-> "broadcast", message |-> message, start |-> start,
     before |-> before, failed |-> failed, delivered |-> delivered,
     changed |-> changed]

\* broadcast(message) up to its first await: it returns at once when nobody is
\* connected, else the iterator yields the first connection and send_json is
\* called.
BroadcastStart ==
    /\ bcPc = "idle"
    /\ nbroadcasts < MaxBroadcasts
    /\ nbroadcasts' = nbroadcasts + 1
    /\ IF active_connections = <<>>
       THEN /\ prev' = EmptyStore
            /\ last' = Broadcast(Event(nbroadcasts + 1), <<>>, <<>>, <<>>,
                                 <<>>, FALSE)
            /\ emitted' = <<>>
            /\ UNCHANGED <<bcPc, bcMessage, bcIter, bcConn, bcStart>>
       ELSE /\ bcPc' = "sending"
            /\ bcMessage' = Event(nbroadcasts + 1)
            /\ bcIter' = 1
            /\ bcConn' = <<active_connections[1]>>
            /\ bcStart' = active_connections
            /\ NoHistory
    /\ bcDisconnected' = <<>>
    /\ bcDelivered' = <<>>
    /\ bcChanged' = FALSE
    /\ UNCHANGED <<active_connections, stPc, broken, received>>

\* broadcast resumes from send_json: the message is delivered, or the send
\* raised and the connection is noted.  Then the iterator, which holds an index
\* into active_connections itself, yields the next connection; when it is
\* exhausted the noted connections are removed and broadcast returns.
BroadcastSend ==
    /\ bcPc = "sending"
    /\ LET w == bcConn[1]
           failed == w \in broken
           conns == IF failed THEN SendFailed(active_connections, w)
                    ELSE active_connections
           disconnected == IF failed THEN Append(bcDisconnected, w)
                           ELSE bcDisconnected
           delivered == IF failed THEN bcDelivered ELSE Append(bcDelivered, w)
       IN /\ received' = IF failed THEN received
                         ELSE [received EXCEPT ![w] = Append(@, bcMessage)]
          /\ IF bcIter < Len(conns)
             THEN /\ bcConn' = <<conns[bcIter + 1]>>
                  /\ bcIter' = bcIter + 1
                  /\ active_connections' = conns
                  /\ bcDisconnected' = disconnected
                  /\ bcDelivered' = delivered
                  /\ NoHistory
                  /\ UNCHANGED <<bcPc, bcMessage, bcStart, bcChanged>>
             ELSE /\ active_connections' = CleanUp(conns, disconnected)
                  /\ prev' = EmptyStore
                  /\ last' = Broadcast(bcMessage, bcStart, conns, disconnected,
                                       delivered, bcChanged)
                  /\ emitted' = <<>>
                  /\ bcPc' = "idle"
                  /\ bcMessage' = NoMessage
                  /\ bcIter' = 0
                  /\ bcConn' = <<>>
                  /\ bcDisconnected' = <<>>
                  /\ bcStart' = <<>>
                  /\ bcDelivered' = <<>>
                  /\ bcChanged' = FALSE
    /\ UNCHANGED <<stPc, broken, nbroadcasts>>

\* The variables the event stream leaves alone.
wsFrame == <<plVars, log, scVars, fnVars>>

NextWs ==
    \/ \E w \in Sockets : ClientGone(w) /\ UNCHANGED wsFrame
    \/ \E w \in Sockets : StreamConnect(w) /\ UNCHANGED wsFrame
    \/ \E w \in Sockets : StreamHello(w) /\ UNCHANGED wsFrame
    \/ \E w \in Sockets : StreamDisconnect(w) /\ UNCHANGED wsFrame
    \/ BroadcastStart /\ UNCHANGED wsFrame
    \/ BroadcastSend /\ UNCHANGED wsFrame

SpecWs == Init /\ [][NextWs]_vars

\* ------------------------------------------------------------- discovery.scan
\* network.hosts() of the CIDR scanned, in order.
Hosts == <<"10.0.0.5", "10.0.0.9">>

\* An entry of arp_scan's list (_arp_scan_sync and the arp-scan / ARP-cache
\* fallback append one entry per reply or line, whatever its ip).
ArpEntry(ip) == [ip |-> ip, mac |-> MacOf(ip), hostname |-> None, source |-> "arp"]
\* The entry scan appends for an ip of ping_sweep.
IcmpEntry(ip) == [ip |-> ip, mac |-> None, hostname |-> None, source |-> "icmp"]
\* An entry of mdns_discover's list: one per address of a resolved service.
MdnsEntry(ip, server) == [ip |-> ip, mac |-> None, hostname |-> server, source |-> "mdns"]

\* The lists of at most MaxProbe elements of a set.
Lists(S) == UNION {[1..n -> S] : n \in 0..MaxProbe}

ArpOutputs == Lists({ArpEntry(ip) : ip \in Members(Hosts)})
\* The entries the two fallbacks append: one per line with an ip and a mac.
ArpScanEntry(ip) == [ip |-> ip, mac |-> MacOf(ip), hostname |-> None, source |-> "arp-scan"]
ArpCacheEntry(ip) == [ip |-> ip, mac |-> MacOf(ip), hostname |-> None, source |-> "arp-cache"]

\* A method that ran to its end, with the entries it parsed.
Yields(entries) == [status |-> "ok", entries |-> entries]
\* scapy: the import fails, srp raises, or the replies give a list.
ScapyOutcomes == {NoEntries("unavailable"), NoEntries("error")} \cup {Yields(l) : l \in ArpOutputs}
\* arp-scan: not installed (FileNotFoundError), TimeoutExpired, another
\* exception, a non-zero return code, or return code 0 and the lines parsed.
ArpScanOutcomes == {NoEntries("unavailable"), NoEntries("timeout"), NoEntries("error"), NoEntries("failed")} \cup {Yields(l) : l \in Lists({ArpScanEntry(ip) : ip \in Members(Hosts)})}
\* "ip neigh": an exception, a non-zero return code, or the lines parsed.
ArpCacheOutcomes == {NoEntries("error"), NoEntries("failed")} \cup {Yields(l) : l \in Lists({ArpCacheEntry(ip) : ip \in Members(Hosts)})}

\* The last resort of _arp_scan_fallback: the entries of the neighbor cache
\* are appended to devices, which is returned whatever happened.
ArpCache(devices, cache) == IF cache.status = "ok" THEN devices \o cache.entries ELSE devices

\* _arp_scan_fallback: arp-scan's entries when it exited 0 and parsed at least
\* one ("if devices: return devices"), otherwise the neighbor cache.
ArpScanFallbackReadsOn(arpscan, cache) == ArpCache(arpscan.entries, cache)
ArpScanFallback(arpscan, cache) == IF arpscan.status = "ok" /\ arpscan.entries # <<>> THEN arpscan.entries ELSE ArpCache(arpscan.entries, cache)

\* _arp_scan_sync: scapy's entries when it could be imported, did not raise
\* and found at least one, otherwise the fallback.
ArpScanSync(scapy, arpscan, cache) == IF scapy.status = "ok" /\ scapy.entries # <<>> THEN scapy.entries ELSE ArpScanFallback(arpscan, cache)

\* The methods a call runs, in order: scapy always (its import is a run that
\* fails at once), arp-scan after a scapy without entries, "ip neigh" after an
\* arp-scan without entries.
ArpRan(scapy, arpscan) == IF scapy.status = "ok" /\ scapy.entries # <<>> THEN <<"scapy">> ELSE IF arpscan.status = "ok" /\ arpscan.entries # <<>> THEN <<"scapy", "arp-scan">> ELSE <<"scapy", "arp-scan", "arp-cache">>

\* ping_sweep answers with the hosts that replied, in the order of hosts.
AliveLists == {SelectSeq(Hosts, LAMBDA ip : ip \in S) : S \in SUBSET Members(Hosts)}
MdnsOutputs == Lists({MdnsEntry(ip, h) : ip \in Members(Hosts), h \in Hostnames})
\* What an awaited probe does in scan: <<>> when it raises, <<list>> when it
\* returns.
Awaited(lists) == {<<>>} \cup {<<l>> : l \in lists}
\* The list scan goes on with: the probe's, or none after an exception.
Returned(out) == IF out = <<>> THEN <<>> ELSE out[1]

\* The awaits of scan that sit in a try with "except Exception": ping_sweep
\* and mdns_discover.  arp_scan is awaited outside any try; what can fail in
\* it fails inside _arp_scan_sync, which catches it.
GuardedButMdns == {"icmp"}
Guarded == {"icmp", "mdns"}
\* Where scan is after awaiting a probe: at the next statement, or gone with
\* the exception that nothing caught.
AfterAwait(probe, out, next) == IF out = <<>> /\ probe \notin Guarded THEN "raised" ELSE next

\* seen_ips = {d["ip"] for d in devices if "ip" in d}
SeenIps(devices) == {devices[i].ip : i \in 1..Len(devices)}

\* "for ip in alive_ips: if ip not in seen_ips: devices.append(...); seen_ips.add(ip)"
RECURSIVE MergeAlive(_, _)
MergeAlive(devices, alive_ips) ==
    IF alive_ips = <<>> THEN devices
    ELSE MergeAlive(IF Head(alive_ips) \notin SeenIps(devices)
                    THEN Append(devices, IcmpEntry(Head(alive_ips)))
                    ELSE devices,
                    Tail(alive_ips))

\* "for entry in mdns: if ip and ip not in seen_ips: devices.append(entry); seen_ips.add(ip)"
RECURSIVE MergeMdns(_, _)
MergeMdns(devices, mdns) ==
    IF mdns = <<>> THEN devices
    ELSE MergeMdns(IF Head(mdns).ip \notin SeenIps(devices)
                   THEN Append(devices, Head(mdns))
                   ELSE devices,
                   Tail(mdns))

\* devices = await arp_scan(...); seen_ips = {...}
ScanArp ==
    /\ scPc = "idle"
    /\ \E scapy \in ScapyOutcomes, arpscan \in ArpScanOutcomes, cache \in ArpCacheOutcomes :
        /\ scMethods' = [scapy |-> scapy, arpscan |-> arpscan, cache |-> cache]
        /\ scRan' = ArpRan(scapy, arpscan)
        /\ scArp' = ArpScanSync(scapy, arpscan, cache)
        /\ scDevices' = ArpScanSync(scapy, arpscan, cache)
        /\ scSeen' = SeenIps(ArpScanSync(scapy, arpscan, cache))
    /\ scPc' = "arp"
    /\ UNCHANGED <<scAlive, scMdns, scFailed>>

\* alive_ips = await ping_sweep(...), [] if it raised, then the loop over
\* alive_ips.
ScanPing ==
    /\ scPc = "arp"
    /\ \E out \in Awaited(AliveLists) :
        /\ scAlive' = Returned(out)
        /\ scDevices' = MergeAlive(scDevices, Returned(out))
        /\ scSeen' = scSeen \cup Members(Returned(out))
        /\ scFailed' = IF out = <<>> THEN scFailed \cup {"icmp"} ELSE scFailed
        /\ scPc' = AfterAwait("icmp", out, "icmp")
    /\ UNCHANGED <<scMethods, scRan, scArp, scMdns>>

\* mdns = await mdns_discover(...), then the loop over mdns; an exception
\* skips the loop.
ScanMdns ==
    /\ scPc = "icmp"
    /\ \E out \in Awaited(MdnsOutputs) :
        /\ scMdns' = Returned(out)
        /\ scDevices' = MergeMdns(scDevices, Returned(out))
        /\ scSeen' = scSeen \cup SeenIps(Returned(out))
        /\ scFailed' = IF out = <<>> THEN scFailed \cup {"mdns"} ELSE scFailed
        /\ scPc' = AfterAwait("mdns", out, "done")
    /\ UNCHANGED <<scMethods, scRan, scArp, scAlive>>

\* return devices
ScanReturn ==
    /\ scPc = "done"
    /\ scPc' = "idle"
    /\ scMethods' = NoMethods /\ scRan' = <<>> /\ scFailed' = {}
    /\ scArp' = <<>> /\ scAlive' = <<>> /\ scMdns' = <<>>
    /\ scDevices' = <<>> /\ scSeen' = {}

\* The variables discovery.scan leaves alone.
scFrame == <<plVars, histVars, log, wsVars, fnVars>>

NextScan ==
    \/ ScanArp /\ UNCHANGED scFrame
    \/ ScanPing /\ UNCHANGED scFrame
    \/ ScanMdns /\ UNCHANGED scFrame
    \/ ScanReturn /\ UNCHANGED scFrame

SpecScan == Init /\ [][NextScan]_vars

\* ------------------------------------------------------------- identification
\* 1. OUI vendor lookup: only with a mac; a falsy vendor and an exception
\* leave result as it is.
OuiStep(result, args, env) == IF args.use_oui /\ Truthy(args.mac) /\ env.oui # Raises /\ Truthy(env.oui) THEN [result EXCEPT !.vendor = env.oui] ELSE result

\* result.update(snmp_data): the keys of snmp_data overwrite, the others stay.
SnmpErasesTheRest(result, snmp_data) == [k \in IdentFields |-> IF k \in DOMAIN snmp_data THEN snmp_data[k] ELSE None]
SnmpUpdate(result, snmp_data) == [k \in IdentFields |-> IF k \in DOMAIN snmp_data THEN snmp_data[k] ELSE result[k]]

\* 2. SNMP system info: an exception leaves result as it is.
SnmpStep(result, args, env) == IF args.use_snmp /\ env.snmp # <<>> THEN SnmpUpdate(result, env.snmp[1]) ELSE result

\* The condition of step 3: use_dns and not result["hostname"].
DnsNever(use_dns, result) == FALSE
DnsWanted(use_dns, result) == use_dns /\ ~Truthy(result.hostname)

\* 3. DNS reverse lookup, the fallback for hostname.
DnsStep(result, args, env) == IF DnsWanted(args.use_dns, result) /\ Truthy(DnsReverseLookup(env.dns)) THEN [result EXCEPT !.hostname = DnsReverseLookup(env.dns)] ELSE result

\* identify_device(ip, mac, use_oui, use_snmp, use_dns) as a whole.
IdentifyDevice(args, env) == DnsStep(SnmpStep(OuiStep(NullResult, args, env), args, env), args, env)

\* The caller's merge of ident_data into d:
\*   d["vendor"] = ident_data.get("vendor")
\*   d["hostname"] = ident_data.get("hostname") or d.get("hostname")
\*   d["description"] = ident_data.get("description")
MergeOverwrites(d, ident_data) == [d EXCEPT !.vendor = ident_data.vendor, !.hostname = ident_data.hostname, !.description = ident_data.description]
MergeIdent(d, ident_data) == [d EXCEPT !.vendor = ident_data.vendor, !.hostname = IF Truthy(ident_data.hostname) THEN ident_data.hostname ELSE d.hostname, !.description = ident_data.description]

\* A caller awaits identify_device for its entry d: result is initialised.
IdentifyStart ==
    /\ idPc = "idle"
    /\ \E args \in IdentArgs, env \in IdentEnvs, h \in CandidateHostnames :
        /\ idArgs' = args
        /\ idEnv' = env
        /\ idCandidate' = Candidate(args.mac, h)
    /\ idResult' = NullResult
    /\ idCalled' = {}
    /\ idPc' = "oui"

IdentifyOui ==
    /\ idPc = "oui"
    /\ idResult' = OuiStep(idResult, idArgs, idEnv)
    /\ idCalled' = IF idArgs.use_oui /\ Truthy(idArgs.mac) THEN idCalled \cup {"oui"} ELSE idCalled
    /\ idPc' = "snmp"
    /\ UNCHANGED <<idArgs, idEnv, idCandidate>>

IdentifySnmp ==
    /\ idPc = "snmp"
    /\ idResult' = SnmpStep(idResult, idArgs, idEnv)
    /\ idCalled' = IF idArgs.use_snmp THEN idCalled \cup {"snmp"} ELSE idCalled
    /\ idPc' = "dns"
    /\ UNCHANGED <<idArgs, idEnv, idCandidate>>

\* The last step; identify_device returns result.
IdentifyDns ==
    /\ idPc = "dns"
    /\ idResult' = DnsStep(idResult, idArgs, idEnv)
    /\ idCalled' = IF DnsWanted(idArgs.use_dns, idResult) THEN idCalled \cup {"dns"} ELSE idCalled
    /\ idPc' = "returned"
    /\ UNCHANGED <<idArgs, idEnv, idCandidate>>

\* The caller (discovery_job, discovery_scan) merges ident_data into d.
IdentifyMerge ==
    /\ idPc = "returned"
    /\ idCandidate' = MergeIdent(idCandidate, idResult)
    /\ idPc' = "merged"
    /\ UNCHANGED <<idArgs, idEnv, idResult, idCalled>>

\* The caller's loop goes on to its next entry.
IdentifyNext ==
    /\ idPc = "merged"
    /\ idPc' = "idle"
    /\ idArgs' = NoArgs /\ idEnv' = NoEnv /\ idResult' = NullResult
    /\ idCalled' = {} /\ idCandidate' = Candidate(None, None)

idFrame == <<plVars, histVars, log, wsVars, scVars, pgVars, swVars, announced, upVars>>

NextIdent ==
    \/ IdentifyStart /\ UNCHANGED idFrame
    \/ IdentifyOui /\ UNCHANGED idFrame
    \/ IdentifySnmp /\ UNCHANGED idFrame
    \/ IdentifyDns /\ UNCHANGED idFrame
    \/ IdentifyMerge /\ UNCHANGED idFrame
    \/ IdentifyNext /\ UNCHANGED idFrame

SpecIdent == Init /\ [][NextIdent]_vars

\* ------------------------------------------------------------- ping_device
\* re.search(r"(\d+)% packet loss", output): the lines that match, in order.
LossMatch(output) == SelectSeq(output, LAMBDA l : l \in LossLines)
\* float(loss_match.group(1)).
LossGroup(l) == CASE l = "4 packets transmitted, 4 received, 0% packet loss" -> 0 [] l = "4 packets transmitted, 2 received, 50% packet loss" -> 50 [] l = "4 packets transmitted, 0 received, 100% packet loss" -> 100
\* re.search(r"rtt min/avg/max/mdev = ...", output): the lines that match.
LatencyMatch(output) == SelectSeq(output, LAMBDA l : l \in RttLines)
\* float of groups 1, 2, 3 of the match: min, avg, max.
LatencyGroups(l) == CASE l = "rtt min/avg/max/mdev = 0.123/0.595/1.012/0.334 ms" -> <<123, 595, 1012>> [] l = "rtt min/avg/max/mdev = 12.500/20.000/31.000/7.100 ms" -> <<12500, 20000, 31000>>

\* The dictionary returned for a non-zero return code.
PingFailed(ip) == [ip |-> ip, status |-> "down", latency_avg |-> <<>>, latency_min |-> <<>>, latency_max |-> <<>>, packet_loss |-> 100]
\* The dictionary returned by the except clause.
PingError(ip) == [ip |-> ip, status |-> "error", latency_avg |-> <<>>, latency_min |-> <<>>, latency_max |-> <<>>, packet_loss |-> 100]
\* packet_loss: the first match, 0.0 without one.
PacketLoss(output) == IF LossMatch(output) # <<>> THEN LossGroup(LossMatch(output)[1]) ELSE 0
\* latency_min, latency_avg, latency_max: the first match, 0.0 without one.
Latency(output) == IF LatencyMatch(output) # <<>> THEN LatencyGroups(LatencyMatch(output)[1]) ELSE <<0, 0, 0>>
\* The dictionary returned after parsing the output of a process that exited 0.
PingParsed(ip, output) == [ip |-> ip, status |-> IF PacketLoss(output) < 100 THEN "up" ELSE "down", latency_avg |-> <<Latency(output)[2]>>, latency_min |-> <<Latency(output)[1]>>, latency_max |-> <<Latency(output)[3]>>, packet_loss |-> PacketLoss(output)]

\* ping_device(ip) for what running the process did.
PingDevice(ip, run) == IF run.raises THEN PingError(ip) ELSE IF run.returncode # 0 THEN PingFailed(ip) ELSE PingParsed(ip, run.output)

\* ping_device starts the process and awaits its end.
PingStart ==
    /\ pgPc \in {"idle", "returned"}
    /\ pgIp' \in RepoIPs
    /\ pgRun' \in PingRuns
    /\ pgResult' = NoResult
    /\ pgPc' = "communicate"

\* The process has ended, or starting or awaiting it raised: ping_device
\* returns its dictionary.
PingReturn ==
    /\ pgPc = "communicate"
    /\ pgResult' = PingDevice(pgIp, pgRun)
    /\ pgPc' = "returned"
    /\ UNCHANGED <<pgIp, pgRun>>

pgFrame == <<plVars, histVars, log, wsVars, scVars, idVars, swVars, announced, upVars>>

NextPing ==
    \/ PingStart /\ UNCHANGED pgFrame
    \/ PingReturn /\ UNCHANGED pgFrame

SpecPing == Init /\ [][NextPing]_vars

\* ------------------------------------------------------------- ping_sweep
\* asyncio.Semaphore(max(1, int(concurrency)))
SemaphoreOneMore(concurrency) == concurrency + 1
SemaphoreValue(concurrency) == IF concurrency > 1 THEN concurrency ELSE 1

\* hosts, truncated to max_hosts.
Truncated(hosts, max_hosts) == IF Len(hosts) > max_hosts THEN SubSeq(hosts, 1, max_hosts) ELSE hosts

\* ping_sweep up to asyncio.gather: a cidr that does not parse returns [] at
\* once, otherwise one ping_one task per host is created.
SweepStart ==
    /\ swPc = "idle"
    /\ \E args \in SweepArgs :
        /\ swArgs' = args
        /\ swPc' = IF args.cidr_ok THEN "gather" ELSE "returned"
        /\ swHosts' = IF args.cidr_ok THEN Truncated(NetworkHosts, args.max_hosts) ELSE <<>>
        /\ swSem' = IF args.cidr_ok THEN SemaphoreValue(args.concurrency) ELSE 0
    /\ UNCHANGED <<swTask, swStarted, swOk, swAlive>>

\* ping_one(ip) enters "async with sem" and starts its ping process.
SweepAcquire(ip) ==
    /\ swPc = "gather"
    /\ ip \in Members(swHosts)
    /\ swTask[ip] = "waiting"
    /\ swSem > 0
    /\ swSem' = swSem - 1
    /\ swTask' = [swTask EXCEPT ![ip] = "probing"]
    /\ swStarted' = [swStarted EXCEPT ![ip] = @ + 1]
    /\ UNCHANGED <<swPc, swArgs, swHosts, swOk, swAlive>>

\* The process of ping_one(ip) ends, or starting or awaiting it raised: the
\* semaphore is released and the task returns returncode == 0, or False.
SweepRelease(ip) ==
    /\ swPc = "gather"
    /\ swTask[ip] = "probing"
    /\ swSem' = swSem + 1
    /\ swTask' = [swTask EXCEPT ![ip] = "done"]
    /\ \E ok \in BOOLEAN : swOk' = [swOk EXCEPT ![ip] = ok]
    /\ UNCHANGED <<swPc, swArgs, swHosts, swStarted, swAlive>>

\* gather has every result: alive = [ip for ip, ok in zip(hosts, results) if ok]
SweepReturn ==
    /\ swPc = "gather"
    /\ \A ip \in Members(swHosts) : swTask[ip] = "done"
    /\ swAlive' = SelectSeq(swHosts, LAMBDA ip : swOk[ip])
    /\ swPc' = "returned"
    /\ UNCHANGED <<swArgs, swHosts, swSem, swTask, swStarted, swOk>>

\* The caller has the list; the next sweep starts afresh.
SweepNext ==
    /\ swPc = "returned"
    /\ swPc' = "idle"
    /\ swArgs' = NoSweep /\ swHosts' = <<>> /\ swSem' = 0
    /\ swTask' = [ip \in Network |-> "waiting"]
    /\ swStarted' = [ip \in Network |-> 0]
    /\ swOk' = [ip \in Network |-> FALSE]
    /\ swAlive' = <<>>

swFrame == <<plVars, histVars, log, wsVars, scVars, idVars, pgVars, announced, upVars>>

NextSweep ==
    \/ SweepStart /\ UNCHANGED swFrame
    \/ \E ip \in Network : SweepAcquire(ip) /\ UNCHANGED swFrame
    \/ \E ip \in Network : SweepRelease(ip) /\ UNCHANGED swFrame
    \/ SweepReturn /\ UNCHANGED swFrame
    \/ SweepNext /\ UNCHANGED swFrame

SpecSweep == Init /\ [][NextSweep]_vars

\* ------------------------------------------------------------- announcements
\* The ids of the device_discovered events among events.
Discovered(events) ==
    {events[i].device.id : i \in {j \in 1..Len(events) :
                                    events[j].type = "device_discovered"}}

\* The ids announced so far, with those of the step being taken.
Announce == announced' = announced \cup Discovered(emitted')

\* The variables the discovery cycles and the scan endpoint leave alone (they
\* frame mtVars themselves).
anFrame == <<log, wsVars, scVars, idVars, pgVars, swVars, upVars>>

\* Periodic discovery cycles, with scan requests arriving in between.
NextAnnounce ==
    \/ Tick /\ Announce /\ UNCHANGED anFrame
    \/ DiscoveryStart /\ Announce /\ UNCHANGED anFrame
    \/ DiscoveryGet /\ Announce /\ UNCHANGED anFrame
    \/ DiscoveryUpsert /\ Announce /\ UNCHANGED anFrame
    \/ DiscoveryScan /\ Announce /\ UNCHANGED anFrame

SpecAnnounce == Init /\ [][NextAnnounce]_vars

\* ------------------------------------------------------------- connection
\* upsert_device statement by statement: every execute and the commit is an
\* await on the one aiosqlite connection the repository holds, whose statements
\* run one after the other in one transaction; store is the table as the
\* connection's statements see it.

\* The payloads of the calls in flight: identity and id.
StatementPayloads ==
    {data \in RepoPayloads :
        data.hostname = None /\ data.vendor = None /\ data.device_type = None}

\* The step just taken: a statement of caller's upsert_device, or a read.
Statement(op, caller, data) == [op |-> op, caller |-> caller, data |-> data, ping |-> "none", read |-> <<>>]
ReadCall(call, id, result) == [op |-> "read", call |-> call, id |-> id, result |-> result, ping |-> "none", read |-> <<>>]

\* upsert_device(data) up to "if old_row": the SELECT of the IP-only row when
\* data has mac and ip.
UpsertSelect(c) ==
    /\ upPc[c] = "idle"
    /\ ncalls < MaxRepoCalls
    /\ ncalls' = ncalls + 1
    /\ \E data \in StatementPayloads :
        LET old_row == data.mac # None /\ data.ip # None /\ IpOnlyRow(store, data.ip)
        IN /\ upData' = [upData EXCEPT ![c] = data]
           /\ upOld' = [upOld EXCEPT ![c] = old_row]
           /\ upPc' = [upPc EXCEPT ![c] = IF old_row THEN "delete" ELSE "insert"]
           /\ last' = Statement("select", c, data)
    /\ prev' = store
    /\ emitted' = <<>>
    /\ UNCHANGED <<store, durable, clock, djVars, mtVars>>

\* await self._conn.execute("DELETE FROM devices WHERE id=?", (ip,))
UpsertDelete(c) ==
    /\ upPc[c] = "delete"
    /\ store' = DeleteRow(store, upData[c].ip)
    /\ upPc' = [upPc EXCEPT ![c] = "insert"]
    /\ prev' = store
    /\ last' = Statement("delete", c, upData[c])
    /\ emitted' = <<>>
    /\ UNCHANGED <<upData, upOld, durable, clock, djVars, mtVars, ncalls>>

\* The INSERT ... ON CONFLICT statement.
UpsertInsert(c) ==
    /\ upPc[c] = "insert"
    /\ store' = InsertStatement(store, upData[c])
    /\ upPc' = [upPc EXCEPT ![c] = "commit"]
    /\ prev' = store
    /\ last' = Statement("insert", c, upData[c])
    /\ emitted' = <<>>
    /\ UNCHANGED <<upData, upOld, durable, clock, djVars, mtVars, ncalls>>

\* await self._conn.commit(): whatever the connection's statements have done
\* so far is durable, and upsert_device returns.
UpsertCommit(c) ==
    /\ upPc[c] = "commit"
    /\ durable' = store
    /\ upPc' = [upPc EXCEPT ![c] = "idle"]
    /\ upData' = [upData EXCEPT ![c] = NoData]
    /\ upOld' = [upOld EXCEPT ![c] = FALSE]
    /\ prev' = store
    /\ last' = Statement("commit", c, upData[c])
    /\ emitted' = <<>>
    /\ UNCHANGED <<store, clock, djVars, mtVars, ncalls>>

\* list_devices() of another coroutine: its SELECT runs on the connection.
ReadList ==
    /\ last.op # "read"
    /\ prev' = store
    /\ last' = ReadCall("list_devices", None, <<ListDevices(store)>>)
    /\ emitted' = <<>>
    /\ UNCHANGED <<store, upVars, clock, djVars, mtVars, ncalls>>

\* get_device(id) of another coroutine.
ReadGet(id) ==
    /\ last.op # "read"
    /\ prev' = store
    /\ last' = ReadCall("get_device", id, GetDevice(store, id))
    /\ emitted' = <<>>
    /\ UNCHANGED <<store, upVars, clock, djVars, mtVars, ncalls>>

\* The variables the connection's statements leave alone.
cxFrame == <<log, wsVars, scVars, idVars, pgVars, swVars, announced>>

NextConnection ==
    \/ \E c \in Callers : UpsertSelect(c) /\ UNCHANGED cxFrame
    \/ \E c \in Callers : UpsertDelete(c) /\ UNCHANGED cxFrame
    \/ \E c \in Callers : UpsertInsert(c) /\ UNCHANGED cxFrame
    \/ \E c \in Callers : UpsertCommit(c) /\ UNCHANGED cxFrame
    \/ ReadList /\ UNCHANGED cxFrame
    \/ \E id \in Ids : ReadGet(id) /\ UNCHANGED cxFrame

SpecConnection == Init /\ [][NextConnection]_vars

\* ------------------------------------------------------------- properties
\* The step just taken called upsert_device.
Wrote == last.op \notin {"none", "skip"}
\* The step just taken was a discovery_job or a discovery_scan write.
DiscoveryWrote == last.op \in {"discovery", "scan"}
\* The step just taken was a monitoring_tick write.
MonitoringWrote == last.op = "monitoring"

\* The device_up / device_down events among those the step broadcast.
Transitions ==
    SelectSeq(emitted, LAMBDA e : e.type \in {"device_up", "device_down"})

IdentityFields == {"ip", "mac", "hostname", "vendor", "device_type"}

\* C1: once a row has a non-null first_seen, an upsert_device call of the
\* discovery job, the scan endpoint or the monitoring tick leaves the row in
\* place with the same first_seen.
C1_FirstSeenNeverChanges ==
    Wrote =>
        /\ \A id \in DOMAIN prev \cap DOMAIN store :
            prev[id].first_seen # NoTs
                => store[id].first_seen = prev[id].first_seen
        /\ last.data.id \in DOMAIN prev => last.data.id \in DOMAIN store

\* C1 witness: a call carried a first_seen other than the stored one, and the
\* stored one stayed.
C1_Witness ==
    /\ Wrote
    /\ last.data.id \in DOMAIN prev
    /\ prev[last.data.id].first_seen # NoTs
    /\ last.data.first_seen # NoTs
    /\ last.data.first_seen # prev[last.data.id].first_seen
    /\ store[last.data.id].first_seen = prev[last.data.id].first_seen

\* C2: a discovery write carrying ip = X and mac = M onto a stored IP-only
\* row (id = X, ip = X, mac null, first_seen = T) leaves exactly one row for
\* the device: id = M, ip = X, mac = M, first_seen = T, and no row with id = X.
C2_ReKeyKeepsFirstSeen ==
    (DiscoveryWrote /\ last.data.mac # None /\ last.data.ip # None
        /\ IpOnlyRow(prev, last.data.ip)) =>
        LET X == last.data.ip
            M == last.data.mac
        IN /\ X \notin DOMAIN store
           /\ M \in DOMAIN store
           /\ store[M].id = M /\ store[M].ip = X /\ store[M].mac = M
           /\ store[M].first_seen = prev[X].first_seen
           /\ {k \in DOMAIN store : store[k].ip = X \/ store[k].mac = M} = {M}

\* C3: for ip, mac, hostname, vendor and device_type, a call that gives the
\* field as null leaves the stored value of the row it writes as it was, and a
\* call that gives a non-null value makes it the stored value.
C3_CoalesceIdentityFields ==
    Wrote =>
        LET data == last.data
            id == data.id
        IN /\ id \in DOMAIN store
           /\ \A f \in IdentityFields :
                /\ data[f] # None => store[id][f] = data[f]
                /\ (data[f] = None /\ id \in DOMAIN prev)
                      => store[id][f] = prev[id][f]

\* C3 witness: one call replaced the stored ip by another non-null ip and,
\* giving no hostname, left the stored non-null hostname in place.
C3_Witness ==
    /\ Wrote
    /\ last.data.id \in DOMAIN prev
    /\ prev[last.data.id].hostname # None
    /\ last.data.hostname = None
    /\ prev[last.data.id].ip # None
    /\ last.data.ip # None
    /\ last.data.ip # prev[last.data.id].ip
    /\ store[last.data.id].hostname = prev[last.data.id].hostname
    /\ store[last.data.id].ip = last.data.ip

\* C4: no IP-only row (id = X, ip = X, mac null) coexists with a row whose ip
\* is X and whose mac is non-null.
C4_OneRecordPerDevice ==
    \A x \in DOMAIN store :
        IpOnlyRow(store, x) =>
            ~ \E k \in DOMAIN store : store[k].ip = x /\ store[k].mac # None

\* C5: every stored row's tags map has a 'source' entry.
C5_TagsHaveSource ==
    \A k \in DOMAIN store : "source" \in DOMAIN JsonLoads(store[k].tags)

\* C6: no write makes the stored last_seen of an id smaller.
C6_LastSeenNeverDecreases ==
    Wrote =>
        \A id \in DOMAIN prev \cap DOMAIN store :
            store[id].last_seen >= prev[id].last_seen

\* C7: a monitoring tick broadcasts a transition event for a device exactly
\* when the new status is up or down and differs from the stored status; the
\* event's type matches the new status and its previous_status is the stored
\* status the write replaced.
C7_TransitionIffStatusDiffers ==
    (MonitoringWrote /\ last.data.id \in DOMAIN prev) =>
        LET stored == prev[last.data.id].status
        IN /\ (Transitions # <<>>)
                <=> (last.ping \in {"up", "down"} /\ last.ping # stored)
           /\ \A i \in 1..Len(Transitions) :
                /\ Transitions[i].device_id = last.data.id
                /\ Transitions[i].type
                      = (IF last.ping = "up" THEN "device_up" ELSE "device_down")
                /\ Transitions[i].previous_status = stored

\* C8: a probe classified 'error' broadcasts no transition event, and the
\* stored status after the tick's write is the one stored just before it.
C8_ErrorKeepsStoredStatus ==
    (MonitoringWrote /\ last.ping = "error") =>
        /\ Transitions = <<>>
        /\ last.data.id \in DOMAIN prev
              => store[last.data.id].status = prev[last.data.id].status

\* C9: a device whose stored status is 'unknown' or not yet set, classified up
\* or down by a monitoring tick, produces no transition event.
C9_NoEventOnFirstClassification ==
    (MonitoringWrote /\ last.ping \in {"up", "down"}
        /\ last.data.id \in DOMAIN prev
        /\ prev[last.data.id].status \in {"unknown", None}
        /\ last.read[1].status = prev[last.data.id].status) =>
        Transitions = <<>>

\* C10: a discovery-job or on-demand-scan write to an id stored with status up
\* or down leaves the stored status unchanged.
C10_DiscoveryKeepsStatus ==
    (DiscoveryWrote /\ last.data.id \in DOMAIN prev
        /\ prev[last.data.id].status \in {"up", "down"}) =>
        store[last.data.id].status = prev[last.data.id].status

\* The step just taken was the return of a broadcast call.
BroadcastReturned == last.op = "broadcast"

\* active_connections at the start of the broadcast, less the failed sockets.
Survivors(start, failed) == SelectSeq(start, LAMBDA w : w \notin Members(failed))

\* C11: a broadcast during which no stream handler touched the subscriber list
\* removes exactly the subscribers whose send failed, delivers exactly one
\* copy of the message to every other subscriber, and returns.
C11_FailedSendsRemoved ==
    (BroadcastReturned /\ ~last.changed) =>
        /\ active_connections = Survivors(last.start, last.failed)
        /\ \A w \in Members(last.start) :
            /\ w \in Members(last.failed) => w \in broken
            /\ w \in Members(last.failed) => Count(last.delivered, w) = 0
            /\ w \notin Members(last.failed) =>
                /\ Count(last.delivered, w) = 1
                /\ Count(received[w], last.message) = 1
        /\ Members(last.delivered) \subseteq Members(last.start)

\* C11 witness: a broadcast to three subscribers, the send to one of them
\* failed: that one is gone from the list and the other two have the message.
C11_Witness ==
    /\ BroadcastReturned
    /\ ~last.changed
    /\ Len(last.start) = 3
    /\ Len(last.failed) = 1
    /\ Len(last.delivered) = 2
    /\ Len(active_connections) = 2

\* C12: when stream handlers connect or disconnect sockets during a broadcast,
\* every socket that was registered from its start to its end and whose client
\* is still there has received exactly one copy of the message, and no socket
\* has received two.
C12_SafeDuringBroadcast ==
    BroadcastReturned =>
        /\ \A w \in (Members(last.start) \cap Members(last.before)) \ broken :
            Count(last.delivered, w) = 1
        /\ \A w \in Sockets : Count(last.delivered, w) <= 1

\* discovery.scan is about to return scDevices.
ScanDone == scPc = "done"

\* C13: whatever the ARP, ICMP and mDNS probes answer, the list discovery.scan
\* returns holds no two entries with the same ip.
C13_NoDuplicateIps ==
    ScanDone =>
        \A i, j \in 1..Len(scDevices) :
            i # j => scDevices[i].ip # scDevices[j].ip

\* C14: the list discovery.scan returns has the entries of the ARP and ICMP
\* probes and no others, and a hostname mDNS resolved is attached to the first
\* of them that has none.
C14_MdnsOnlyAttachesHostname ==
    ScanDone =>
        LET merged == MergeAlive(scArp, scAlive)
        IN /\ SeenIps(scDevices) = SeenIps(scArp) \cup Members(scAlive)
           /\ Len(scDevices) = Len(merged)
           /\ \A i \in 1..Len(merged) :
                /\ scDevices[i].ip = merged[i].ip
                /\ scDevices[i].mac = merged[i].mac
                /\ scDevices[i].source = merged[i].source
           /\ (scMdns # <<>> /\ merged # <<>>)
                => scDevices[1].hostname = scMdns[1].hostname

\* The payloads of two writers that meet on one id: each supplies the id and
\* any of ip, hostname, status, first_seen, last_seen and tags.
ConvergePayloads ==
    {data \in [id : Ids, ip : IPs \cup {None}, mac : {None},
               hostname : Hostnames \cup {None}, vendor : {None},
               device_type : {None}, status : {None, "up"},
               first_seen : {NoTs, 0}, last_seen : {NoTs, 1},
               tags : {<<>>, <<SourceTags("arp")>>}] :
        data.ip # None => data.id = data.ip}

\* The fields a payload supplies, the id apart.
Supplied(data) ==
    {f \in {"ip", "hostname", "status"} : data[f] # None}
    \cup {f \in {"first_seen", "last_seen"} : data[f] # NoTs}
    \cup {f \in {"tags"} : data[f] # <<>>}

\* C15: on every stored table, a payload applied twice leaves what it leaves
\* applied once, and two payloads for one id that supply disjoint fields leave
\* the same row in either order.
C15_UpsertsConverge ==
    /\ \A data \in ConvergePayloads :
        UpsertDevice(UpsertDevice(store, data), data) = UpsertDevice(store, data)
    /\ \A d1, d2 \in ConvergePayloads :
        (d1.id = d2.id /\ Supplied(d1) \cap Supplied(d2) = {}) =>
            UpsertDevice(UpsertDevice(store, d1), d2)[d1.id]
                = UpsertDevice(UpsertDevice(store, d2), d1)[d1.id]

\* C17: every stored row's id is its mac when the mac is non-null, else its ip,
\* else 'unknown'; and a write leaves the id of every row it keeps as it was.
C17_IdFollowsIdentity ==
    /\ \A k \in DOMAIN store :
        /\ store[k].id = k
        /\ store[k].id = DevId(store[k].mac, store[k].ip)
    /\ Wrote => \A k \in DOMAIN prev \cap DOMAIN store : store[k].id = prev[k].id

Statuses == {"up", "down", "unknown"}

\* C18: every stored status is up, down or unknown, and a row created by the
\* discovery job or by the scan endpoint is created with status unknown.
C18_StatusIsUpDownUnknown ==
    /\ \A k \in DOMAIN store : store[k].status \in Statuses
    /\ (DiscoveryWrote /\ last.data.id \notin DOMAIN prev)
          => store[last.data.id].status = "unknown"

\* C19: a monitoring write whose probe status is up stores the current time as
\* last_seen; one whose status is down or error leaves the stored last_seen of
\* the device as it was just before the write.
C19_LastSeenOnlyWhenUp ==
    (MonitoringWrote /\ last.data.id \in DOMAIN prev) =>
        /\ last.ping = "up" => store[last.data.id].last_seen = clock
        /\ last.ping \in {"down", "error"}
              => store[last.data.id].last_seen = prev[last.data.id].last_seen

\* No cycle is in flight.
Quiescent == djPc = "idle" /\ mtPc = "idle"

\* C16: whenever no cycle is in flight, the inventory is one that the cycles
\* run so far leave when they run one after another in some order.
C16_InterleavingsSerializable ==
    Quiescent => store \in SerialOutcomes(EmptyStore, 1..Len(log))

\* The latency events among those the step broadcast.
Latencies == SelectSeq(emitted, LAMBDA e : e.type = "latency")

\* C20: for a device with a non-null ip processed by a monitoring tick, the
\* sample goes to the metric sink (when one is configured) exactly when the
\* probe status is not 'error', and a latency event is broadcast exactly when
\* the status is 'up'; a device with a null ip is not probed, written to the
\* sink, announced or stored.
C20_SinkAndLatencyByStatus ==
    /\ MonitoringWrote =>
        /\ last.read[1].ip # None
        /\ last.influx => ((last.metric # <<>>) <=> (last.ping # "error"))
        /\ ~last.influx => last.metric = <<>>
        /\ \A i \in 1..Len(last.metric) :
              last.metric[i].device_id = last.data.id
        /\ (Latencies # <<>>) <=> (last.ping = "up")
        /\ \A i \in 1..Len(Latencies) : Latencies[i].device_id = last.data.id
    /\ last.op = "skip" =>
        /\ last.read[1].ip = None
        /\ last.ping = "none"
        /\ last.metric = <<>>
        /\ emitted = <<>>
        /\ store = prev

\* C20 witness: with a sink configured, a probe classified 'down' wrote its
\* sample to the sink and broadcast no latency event.
C20_Witness ==
    /\ MonitoringWrote
    /\ last.influx
    /\ last.ping = "down"
    /\ Len(last.metric) = 1
    /\ Latencies = <<>>

\* identify_device has returned.
Identified == idPc = "returned"
\* The fields of result other than hostname.
OtherFields == IdentFields \ {"hostname"}

\* C21: a call of identify_device with the OUI lookup disabled and an SNMP
\* query that raises returns a result in which every field but hostname is
\* null; with the reverse lookup enabled, hostname is the name the lookup
\* found and null when the lookup failed or timed out, and with it disabled
\* hostname is null as well.
C21_OuiOffSnmpRaises ==
    (Identified /\ ~idArgs.use_oui /\ idArgs.use_snmp /\ idEnv.snmp = <<>>) =>
        /\ \A k \in OtherFields : idResult[k] = None
        /\ idArgs.use_dns =>
            /\ idEnv.dns \in Hostnames => idResult.hostname = idEnv.dns
            /\ idEnv.dns \notin Hostnames => idResult.hostname = None
        /\ ~idArgs.use_dns => idResult.hostname = None

C21_Witness ==
    /\ Identified /\ ~idArgs.use_oui /\ idArgs.use_snmp /\ idEnv.snmp = <<>>
    /\ idArgs.use_dns /\ idEnv.dns \in Hostnames
    /\ idResult.hostname = idEnv.dns

\* C22: a call of identify_device with use_oui=False and use_snmp=False and
\* use_dns at its default, True, returns a result whose seven fields are all
\* null.
C22_AllDisabledAllNull ==
    (Identified /\ ~idArgs.use_oui /\ ~idArgs.use_snmp /\ idArgs.use_dns) =>
        idResult = NullResult

\* C23: in identify_device a failing source neither aborts the call nor erases
\* what another source supplied: when the OUI lookup raises or misses, vendor
\* is null and the fields of the SNMP answer are returned (hostname falling
\* back to the reverse lookup only when SNMP named none); when the SNMP query
\* raises, the vendor from the OUI lookup is in the result; and an SNMP answer
\* leaves that vendor in place.
C23_SourcesIndependent ==
    Identified =>
        /\ (idArgs.use_snmp /\ idEnv.snmp # <<>>) =>
            /\ \A k \in SnmpKeys \ {"hostname"} : idResult[k] = idEnv.snmp[1][k]
            /\ Truthy(idEnv.snmp[1].hostname) => idResult.hostname = idEnv.snmp[1].hostname
        /\ (idArgs.use_oui /\ idEnv.oui \in {Raises, None}) => idResult.vendor = None
        /\ (idArgs.use_oui /\ Truthy(idArgs.mac) /\ idEnv.oui \in Vendors) => idResult.vendor = idEnv.oui

C23_Witness ==
    /\ Identified /\ idArgs.use_oui /\ Truthy(idArgs.mac) /\ idArgs.use_snmp
    /\ \/ idEnv.oui = Raises /\ idEnv.snmp # <<>> /\ idResult.description = "Switch"
       \/ idEnv.oui \in Vendors /\ idEnv.snmp = <<>> /\ idResult.vendor = idEnv.oui

\* ping_device has returned.
Pinged == pgPc = "returned"
\* The process exited with return code 0.
ExitedZero == ~pgRun.raises /\ pgRun.returncode = 0

\* C24: ping_device returns status 'up' exactly when the process exited with
\* code 0 and the parsed packet loss is below 100, 'down' when the loss is 100
\* or the exit code is not 0, and 'error' only when starting or running the
\* process raised; and whenever the status is 'down', packet_loss is 100 and
\* latency_min, latency_avg and latency_max are all null.
C24_PingClassification ==
    Pinged =>
        /\ pgResult.status = "up" <=> (ExitedZero /\ pgResult.packet_loss < 100)
        /\ (~pgRun.raises /\ (pgRun.returncode # 0 \/ pgResult.packet_loss = 100)) => pgResult.status = "down"
        /\ pgResult.status = "error" => pgRun.raises
        /\ pgResult.status = "down" =>
            /\ pgResult.packet_loss = 100
            /\ pgResult.latency_min = <<>>
            /\ pgResult.latency_avg = <<>>
            /\ pgResult.latency_max = <<>>

\* The ips of a list of entries all occur in the list scan returns.
Merged(entries) == SeenIps(entries) \subseteq SeenIps(scDevices)

\* C25: discovery.scan never raises because a probe failed: whichever of the
\* ARP methods, the ICMP sweep and mDNS raise, time out or are unavailable,
\* scan awaits all three probes and returns a list that holds every entry the
\* ARP probe gave and an entry for every ip the other probes that returned gave.
C25_ProbeFaultsIsolated ==
    /\ scPc # "raised"
    /\ ScanDone =>
        /\ \A i \in 1..Len(scArp) : scDevices[i] = scArp[i]
        /\ Members(scAlive) \subseteq SeenIps(scDevices)
        /\ Merged(scMdns)
        /\ SeenIps(scDevices) = SeenIps(scArp) \cup Members(scAlive) \cup SeenIps(scMdns)

C25_Witness ==
    /\ ScanDone
    /\ scFailed = {"mdns"}
    /\ scMethods.scapy.status = "unavailable"
    /\ scMethods.arpscan.status = "timeout"
    /\ scArp # <<>>
    /\ Len(scDevices) > Len(scArp)

\* The method an entry of the ARP probe comes from.
MethodOf(source) == CASE source = "arp" -> "scapy" [] source = "arp-scan" -> "arp-scan" [] source = "arp-cache" -> "arp-cache"
\* A method was available, did not fail and gave at least one entry.
Yielded(m) == m.status = "ok" /\ m.entries # <<>>
\* arp_scan has returned in the scan under way.
ArpDone == scPc \in {"arp", "icmp", "done"}

\* C29: the ARP probe runs scapy's capture, then arp-scan, then the neighbor
\* cache, and returns the entries of the first of them that is available and
\* gives at least one; a method that is unavailable, fails or gives nothing
\* is followed by the next, none is run after one that gave entries, and the
\* entries returned never come from two methods.
C29_FirstYieldingMethod ==
    ArpDone =>
        /\ scRan \in {<<"scapy">>, <<"scapy", "arp-scan">>, <<"scapy", "arp-scan", "arp-cache">>}
        /\ Yielded(scMethods.scapy) <=> scRan = <<"scapy">>
        /\ (~Yielded(scMethods.scapy) /\ Yielded(scMethods.arpscan)) <=> scRan = <<"scapy", "arp-scan">>
        /\ Yielded(scMethods.scapy) => scArp = scMethods.scapy.entries
        /\ (~Yielded(scMethods.scapy) /\ Yielded(scMethods.arpscan)) => scArp = scMethods.arpscan.entries
        /\ (~Yielded(scMethods.scapy) /\ ~Yielded(scMethods.arpscan)) => scArp = scMethods.cache.entries
        /\ \A i, j \in 1..Len(scArp) : scArp[i].source = scArp[j].source
        /\ \A i \in 1..Len(scArp) : MethodOf(scArp[i].source) = scRan[Len(scRan)]

C29_Witness ==
    /\ ArpDone
    /\ scMethods.scapy.status = "error"
    /\ Yielded(scMethods.arpscan)
    /\ Yielded(scMethods.cache)
    /\ scArp = scMethods.arpscan.entries

\* The mac "ip neigh" lists for an ip, <<>> when it lists none.
NeighborMac(ip) == IF scMethods.cache.status = "ok" /\ ip \in SeenIps(scMethods.cache.entries) THEN <<MacOf(ip)>> ELSE <<>>

\* C30: in the list discovery.scan returns, an entry that only the ICMP sweep
\* found and whose ip is in the OS neighbor cache carries the mac the cache
\* lists for it, also when the ARP probe's entries came from another method;
\* and the list has no entry beyond those of the three probes.
C30_IcmpEntriesEnriched ==
    ScanDone =>
        /\ \A i \in 1..Len(scDevices) :
            (scDevices[i].source = "icmp" /\ NeighborMac(scDevices[i].ip) # <<>>)
                => scDevices[i].mac = NeighborMac(scDevices[i].ip)[1]
        /\ SeenIps(scDevices) = SeenIps(scArp) \cup Members(scAlive) \cup SeenIps(scMdns)

\* The step just taken was a call raising in a job.
Faulted == last.op = "fault"

\* C26: no exception raised by discovery, identification, the store or a
\* broadcast inside discovery_job or monitoring_tick leaves the job: the job
\* the exception was raised in has returned or goes on with its loop, so the
\* scheduler can start both jobs again.
C26_JobsContainFaults ==
    /\ djPc # "crashed"
    /\ mtPc # "crashed"
    /\ (Faulted /\ last.job = "discovery" /\ last.at # "identify") => (djPc = "idle" /\ djResults = <<>>)
    /\ (Faulted /\ last.job = "discovery" /\ last.at = "identify") => djPc = "loop"
    /\ (Faulted /\ last.job = "monitoring") => (mtPc = "idle" <=> mtTodo = {})

C26_Witness ==
    /\ Faulted
    /\ last.job = "discovery"
    /\ last.at = "upsert_device"
    /\ djPc = "idle"
    /\ mtPc = "loop"
    /\ DOMAIN store # {}

\* The step just taken was a request to POST /discovery/scan.
Requested == last.op = "request"

\* C27: a request to POST /discovery/scan whose scan found devices is answered
\* with the response that carries count and the devices, also when persisting
\* one of them fails in the store.
C27_ScanAnswersDespiteStoreError ==
    (Requested /\ last.devices # <<>>) =>
        /\ last.response # <<>>
        /\ last.response[1].count = Len(last.devices)
        /\ last.response[1].devices = last.devices

\* C28: for a request to POST /discovery/scan that is answered: with
\* persist=false the table is unchanged and persisted is false; with
\* persist=true and a repository present every returned device is stored under
\* id = mac, or ip without a mac, and persisted is true; count is the number
\* of returned devices and identified is the request's identify flag.
C28_ScanRequestEffect ==
    (Requested /\ last.failed = 0) =>
        /\ last.response # <<>>
        /\ ~last.persist =>
            /\ store = prev
            /\ last.response[1].persisted = FALSE
        /\ (last.persist /\ last.repo) =>
            /\ \A i \in 1..Len(last.response[1].devices) :
                LET d == last.response[1].devices[i]
                IN /\ DevId(d.mac, d.ip) \in DOMAIN store
                   /\ store[DevId(d.mac, d.ip)].id = DevId(d.mac, d.ip)
                   /\ store[DevId(d.mac, d.ip)].ip = d.ip
                   /\ store[DevId(d.mac, d.ip)].mac = d.mac
            /\ last.response[1].persisted = TRUE
        /\ last.response[1].count = Len(last.response[1].devices)
        /\ last.response[1].devices = last.devices
        /\ last.response[1].identified = last.identify

C28_Witness ==
    /\ Requested /\ last.failed = 0
    /\ last.persist /\ last.repo
    /\ Len(last.devices) = 2
    /\ last.devices[1].mac # None
    /\ last.response[1].persisted
    /\ store # prev

\* The SNMP query of the call returned a non-empty hostname.
SnmpNamed == idArgs.use_snmp /\ idEnv.snmp # <<>> /\ Truthy(idEnv.snmp[1].hostname)
\* What holds of the result once identify_device has returned.
HostnameSource ==
    idPc \in {"returned", "merged"} =>
        /\ SnmpNamed => ("dns" \notin idCalled /\ idResult.hostname = idEnv.snmp[1].hostname)
        /\ "dns" \in idCalled => ~SnmpNamed
        /\ (~SnmpNamed /\ idArgs.use_dns) => "dns" \in idCalled
        /\ (~SnmpNamed /\ idArgs.use_dns /\ idEnv.dns \in Hostnames) => idResult.hostname = idEnv.dns
\* The caller's merge step: a hostname found replaces the entry's, none found
\* leaves the entry's as it was.
MergeKeepsHostname ==
    (idPc = "returned" /\ idPc' = "merged") =>
        /\ Truthy(idResult.hostname) => idCandidate'.hostname = idResult.hostname
        /\ ~Truthy(idResult.hostname) => idCandidate'.hostname = idCandidate.hostname

\* C39: when the SNMP query returns a non-empty hostname the reverse lookup is
\* not made and the result's hostname is the SNMP one; a hostname from the
\* reverse lookup is in the result only when SNMP was disabled, raised or
\* named none; and merging the result into the caller's entry never replaces
\* a hostname the entry carried by a null or empty one.
C39_HostnamePriority == []HostnameSource /\ [][MergeKeepsHostname]_vars

C39_Witness ==
    /\ idPc = "merged"
    /\ idArgs.use_snmp /\ idEnv.snmp = <<>>
    /\ idArgs.use_dns /\ idEnv.dns \notin Hostnames
    /\ idResult.hostname = None
    /\ idCandidate.hostname = "cam.local"

\* The ping processes of the sweep that are running.
InFlight == {ip \in Network : swTask[ip] = "probing"}
\* The limit the caller asked for, which is never below 1.
Limit == IF swArgs.concurrency >= 1 THEN swArgs.concurrency ELSE 1

\* C31: during a ping sweep the probes in flight never exceed the concurrency
\* limit, which is at least 1; no host is probed twice and hosts cut off by
\* max_hosts are not probed; and when the sweep returns every host of the
\* truncated list was probed exactly once and the list returned holds exactly
\* the hosts whose probe succeeded, in order.
C31_SweepBounded ==
    /\ Cardinality(InFlight) <= Limit
    /\ \A ip \in Network : swStarted[ip] <= 1
    /\ \A ip \in Network \ Members(swHosts) : swStarted[ip] = 0
    /\ (swPc = "returned" /\ swArgs.cidr_ok) =>
        /\ Len(swHosts) <= swArgs.max_hosts
        /\ \A ip \in Members(swHosts) : swStarted[ip] = 1
        /\ Members(swAlive) = {ip \in Members(swHosts) : swOk[ip]}
        /\ swAlive = SelectSeq(swHosts, LAMBDA ip : ip \in Members(swAlive))

C31_Witness ==
    /\ swPc = "returned"
    /\ swArgs.concurrency = 2
    /\ swArgs.max_hosts = 2
    /\ Len(swAlive) = 1
    /\ swStarted["10.0.0.9"] = 1
    /\ swStarted["10.0.0.13"] = 0

\* The hello messages socket w has received.
Hellos(w) == Count(received[w], Hello)

\* Socket w went through manager.connect and its client is still there.
Subscribed(w) == stPc[w] \in {"accepted", "open"} /\ w \notin broken

\* No step delivers a message to a socket whose stream handler has ended.
ClosedStaysSilent == \A w \in Sockets : stPc[w] = "closed" => received'[w] = received[w]

\* C32: every socket gets at most one hello and exactly one once its handler
\* is in the receive loop; a connected socket whose client is there is in
\* active_connections and has a copy of every broadcast that started while it
\* was registered; a socket whose handler has ended is not in
\* active_connections and receives nothing more.
C32_HelloOnceThenEveryBroadcast ==
    /\ [](\A w \in Sockets :
            /\ Hellos(w) <= 1
            /\ stPc[w] = "open" => Hellos(w) = 1
            /\ Subscribed(w) => w \in Members(active_connections)
            /\ stPc[w] = "closed" => w \notin Members(active_connections)
            /\ (BroadcastReturned /\ Subscribed(w) /\ w \in Members(last.start))
                    => w \in Members(last.delivered))
    /\ [][ClosedStaysSilent]_vars

StoredAnew ==
    /\ last.op \in {"discovery", "scan", "monitoring", "repo"}
    /\ last.data.id \notin DOMAIN prev

\* The keys of a payload that hold a value (tags apart).
SuppliedFields(data) ==
    {f \in IdentityFields \cup {"status"} : data[f] # None}
        \cup {f \in {"first_seen", "last_seen"} : data[f] # NoTs}

\* C33: after upsert_device(d) on a table without a row for d.id, get_device
\* (d.id) returns a dict with d's id whose supplied fields equal those of d,
\* the tags dict included; list_devices returns one dict per stored id, under
\* that id; get_device of an id without a row returns None.
C33_ReadAfterWrite ==
    /\ StoredAnew =>
        LET d == last.data
            got == GetDevice(store, d.id)
        IN /\ got # <<>>
           /\ got[1].id = d.id
           /\ \A f \in SuppliedFields(d) : got[1][f] = d[f]
           /\ got[1].tags = TagsOrEmpty(d)
    /\ \A k \in DOMAIN ListDevices(store) :
        /\ ListDevices(store)[k].id = k
        /\ GetDevice(store, k) = <<ListDevices(store)[k]>>
    /\ \A id \in Ids \ DOMAIN store : GetDevice(store, id) = <<>>

\* C33 witness: a discovery write stored a new id with a tags dict and a
\* hostname; get_device returns them and an id without a row reads as None.
C33_Witness ==
    /\ StoredAnew
    /\ last.op = "discovery"
    /\ last.data.tags = <<SourceTags("arp")>>
    /\ last.data.hostname # None
    /\ GetDevice(store, last.data.id)[1].tags = SourceTags("arp")
    /\ GetDevice(store, last.data.id)[1].hostname = last.data.hostname
    /\ GetDevice(store, "unknown") = <<>>

\* C34: a monitoring_tick write for an id that has no row when the write is
\* issued leaves the table without a row for that id.
C34_MonitoringNeverCreates ==
    (MonitoringWrote /\ last.data.id \notin DOMAIN prev)
        => last.data.id \notin DOMAIN store

\* The step just taken was a write of the periodic discovery job.
CycleWrote == last.op = "discovery"

\* No step announces an id that was announced before.
AnnouncedOnce == Discovered(emitted') \cap announced = {}

\* C38: a write of the discovery job broadcasts device_discovered for its id
\* exactly when the table held no row with that id just before the write, and
\* no id is announced twice.
C38_DiscoveredOncePerNewId ==
    /\ [](CycleWrote =>
            (last.data.id \in Discovered(emitted)
                <=> last.data.id \notin DOMAIN prev))
    /\ [][AnnouncedOnce]_vars

\* The step being taken is a call raising for a device of the tick's loop.
DeviceFaults ==
    /\ last'.op = "fault"
    /\ last'.job = "monitoring"
    /\ last'.at # "list_devices"

\* A call raising for one device takes that device, and no other, off the
\* tick's list, and the loop goes on while a device is left.
TickGoesOn ==
    DeviceFaults =>
        /\ mtTodo' = mtTodo \ {last'.read[1].id}
        /\ mtDevices' = mtDevices
        /\ mtTodo' # {} => mtPc' = "loop"

\* A device leaves the tick's list by its own probe and write, by its own
\* failure, or unprobed because the list gave no ip for it.
LeavesByItsOwnStep ==
    \A id \in mtTodo \ mtTodo' :
        \/ last'.op = "monitoring" /\ last'.data.id = id /\ last'.read = <<mtDevices[id]>>
        \/ DeviceFaults /\ last'.read = <<mtDevices[id]>>
        \/ last'.op = "skip" /\ last'.read = <<mtDevices[id]>> /\ mtDevices[id].ip = None

\* C37: a call raising while monitoring_tick handles one device does not end
\* the tick: the other devices of the list read at its start stay on the list,
\* the loop is left only when the list is used up, and each device that has an
\* ip leaves the list only by its own probe and status write or its own
\* failure.
C37_DeviceFaultKeepsTick ==
    /\ [](mtPc = "loop" <=> mtTodo # {})
    /\ [][TickGoesOn /\ LeavesByItsOwnStep]_vars

\* C37 witness: upsert_device raised for one device of a tick and the loop
\* goes on with another device that has an ip.
C37_Witness ==
    /\ Faulted
    /\ last.job = "monitoring"
    /\ last.at = "upsert_device"
    /\ mtPc = "loop"
    /\ \E id \in mtTodo : mtDevices[id].ip # None /\ id # last.read[1].id

\* The status a device_up / device_down event announces.
Announces(event) == IF event.type = "device_up" THEN "up" ELSE "down"

\* C36: when monitoring_tick is through with a device it broadcast device_up
\* or device_down for, the stored status of that device is the status the
\* event announces, also when the upsert_device call after the broadcast
\* raised.
C36_TransitionIsStored ==
    \A i \in 1..Len(Transitions) :
        /\ Transitions[i].device_id \in DOMAIN store
        /\ store[Transitions[i].device_id].status = Announces(Transitions[i])

\* Caller c has deleted the IP-keyed row and not yet inserted the MAC-keyed one.
ReKeying(c) == upPc[c] = "insert" /\ upOld[c]

\* Table t holds neither the IP-keyed nor the MAC-keyed row of data's device.
Neither(t, data) == data.ip \notin DOMAIN t /\ data.id \notin DOMAIN t

\* The table a read call has shown to its caller.
Observed ==
    IF last.call = "list_devices" THEN last.result[1]
    ELSE IF last.result = <<>> THEN EmptyStore
    ELSE [k \in {last.id} |-> last.result[1]]

\* C35: while an upsert_device call stands between its DELETE of the IP-keyed
\* row and its INSERT of the MAC-keyed row, no list_devices call returns a list
\* without both rows, no get_device call for one of the two ids returns None
\* while the table holds neither, and no commit of another upsert_device call
\* makes a table without both rows durable.
C35_ReKeyAtomic ==
    \A c \in Callers :
        ReKeying(c) =>
            /\ (last.op = "read" /\ last.call = "list_devices")
                    => ~Neither(Observed, upData[c])
            /\ (last.op = "read" /\ last.call = "get_device"
                    /\ last.id \in {upData[c].ip, upData[c].id})
                    => ~(Neither(Observed, upData[c]) /\ Neither(store, upData[c]))
            /\ (last.op = "commit" /\ last.caller # c)
                    => ~Neither(durable, upData[c])

====
